---------------------------- MODULE Spec2Model ----------------------------
(***************************************************************************)
(* A model of the tree searches and of the self-play harness of the        *)
(* repository:                                                             *)
(*   - the ultimate tic-tac-toe Board              (src/src/board.rs)      *)
(*   - mcts_zero_build_tree and Tree::best_move    (src/rust/src/mcts_zero.rs) *)
(*   - mcts_evaluate and do_batch_evals            (src/src/mcts/mod.rs)   *)
(*   - StartGameCounter, Settings::run, MoveSelector                       *)
(*                                          (src/rust/src/selfplay/mod.rs) *)
(*                                                                         *)
(* Conventions.  Node and cell indices are the source's, counted from 0;   *)
(* vectors the source indexes are functions on 0..(len-1).                 *)
(* An f32 that only ever holds sums of network values                      *)
(* is an integer; network values are drawn from NetValues.  Scores that are*)
(* compared (uct) are computed in thousandths, with NaN kept apart.        *)
(***************************************************************************)
EXTENDS Integers, Sequences, FiniteSets, TLC

VARIABLES
    \* ---- mcts_zero_build_tree (src/rust/src/mcts_zero.rs) ----
    zpc,                \* position in mcts_zero_build_tree
    board,              \* argument board
    iterations,         \* argument iterations
    exploration_weight, \* argument exploration_weight
    tree,               \* tree.nodes
    parent_list,        \* parent_list
    curr_node,          \* curr_node
    curr_board,         \* curr_board
    value,              \* value
    done_iters,         \* iterations of the for loop completed
    evals,              \* the boards handed to network.evaluate, in order
    walks,              \* history: per node, the walks that reached it
    tree0,              \* history: tree.nodes when the current iteration began
    leaf_value,         \* history: the value the current walk ended with
    z_best_move,        \* what Tree::best_move returned to MCTSZeroBot::play
    z_ref,              \* history: tree and move of an earlier search
    net_memo,           \* history: the boards the network saw, its outputs
    network,            \* argument network: the outputs it can give
    \* ---- mcts_evaluate (src/src/mcts/mod.rs) ----
    mpc,                \* position in mcts_evaluate
    m_board,            \* argument board
    m_iterations,       \* argument iterations
    batch_eval,         \* argument batch_eval
    m_tree,             \* tree
    eval_queue,         \* eval_queue
    m_curr_node,        \* curr_node
    m_curr_board,       \* curr_board
    m_done_iters,       \* iterations of the for loop completed
    m_result,           \* the returned Evaluation's best_move
    ref_tree,           \* the tree of an earlier call with batch_eval = false
    batch_cap,          \* the queue length at which the batch is evaluated
    \* ---- selfplay (src/rust/src/selfplay/mod.rs) ----
    left,               \* StartGameCounter.left, the value behind the Mutex
    left0,              \* history: the argument of StartGameCounter::new
    holder,             \* the worker that holds the Mutex, or None
    wpc,                \* per worker: its position
    max_count,          \* per worker: argument of its request_up_to call
    picked,             \* per worker: local picked of its call
    seen_left,          \* per worker: *left as read by its call
    returned,           \* history: the calls that returned, in order
    game_count,         \* Settings.game_count
    channel,            \* the messages in flight from the workers
    run_pc,             \* position of Settings::run (the collector thread)
    received,           \* Simulations the collector has received
    sent,               \* history: Simulations sent
    gen_iterations,     \* Settings.generator: the iterations of a tree build
    output_file,        \* whether File::create(&self.output_path) has run
    \* ---- MoveSelector::select ----
    sel,                \* the last call of select: arguments, branch, result
    \* ---- value targets (src/src/wdl.rs) ----
    g_outcome,          \* the Outcome of a finished game
    g_players,          \* the side to move of each saved position
    g_targets,          \* the value targets computed so far
    \* ---- compact strings (src/src/board.rs) ----
    k_board,            \* a board reached by Board::play
    k_plays,            \* the plays made on it here
    k_string,           \* its compact string, once written
    k_parsed,           \* the board read back from the string
    \* ---- AtaxxBoard (src/src/games/ataxx/board.rs) ----
    at_board,           \* a board reached by play from the default start
    at_plays,           \* the calls made on it here
    at_passes,          \* history: the Pass moves in a row that led to it
    at_last,            \* history: the move that led to it
    at_query,           \* the result of the last query on the board
    \* ---- bot_game::run (src/src/util/bot_game.rs) ----
    bg_pc,              \* position in run
    bg_args,            \* start(), games_per_side, both_sides
    bg_next,            \* the next index of 0..game_count to map
    bg_game,            \* the variables of the closure for the game in hand
    bg_sum,             \* the ReductionResult of the games mapped so far
    bg_hist,            \* history: who moved in each game, and its outcome
    bg_out,             \* the BotGameResult, once returned
    \* ---- is_win_grid (src/src/board.rs) ----
    wg_grid,            \* argument grid
    wg_result           \* the bool returned, once returned

zvars == <<zpc, board, iterations, exploration_weight, tree, parent_list,
           curr_node, curr_board, value, done_iters, evals, walks, tree0,
           leaf_value, z_best_move, z_ref, net_memo, network>>
mvars == <<mpc, m_board, m_iterations, batch_eval, m_tree, eval_queue,
           m_curr_node, m_curr_board, m_done_iters, m_result, ref_tree,
           batch_cap>>
cvars == <<left, left0, holder, wpc, max_count, picked, seen_left, returned>>
rvars == <<game_count, channel, run_pc, received, sent, gen_iterations,
           output_file>>
gvars == <<g_outcome, g_players, g_targets>>
kvars == <<k_board, k_plays, k_string, k_parsed>>
avars == <<at_board, at_plays, at_passes, at_last, at_query>>
bvars == <<bg_pc, bg_args, bg_next, bg_game, bg_sum, bg_hist, bg_out>>
wvars == <<wg_grid, wg_result>>
lvars == <<gvars, kvars, avars, bvars, wvars>>
vars == <<zvars, mvars, cvars, rvars, sel, lvars>>

\* An Option is the empty sequence (None) or a sequence of one value (Some).
None == <<>>
Some(x) == <<x>>
Unwrap(o) == o[1]

----------------------------------------------------------------------------
(* Bit arithmetic on the u32 values of board.rs.                           *)

Pow2(n) == CASE n = 0 -> 1 [] n = 1 -> 2 [] n = 2 -> 4 [] n = 3 -> 8
             [] n = 4 -> 16 [] n = 5 -> 32 [] n = 6 -> 64 [] n = 7 -> 128
             [] n = 8 -> 256 [] n = 9 -> 512 [] n = 10 -> 1024
             [] n = 11 -> 2048 [] n = 12 -> 4096 [] n = 13 -> 8192
             [] n = 14 -> 16384 [] n = 15 -> 32768 [] n = 16 -> 65536
             [] n = 17 -> 131072 [] n = 18 -> 262144

\* fn has_bit(x, i): ((x >> i) & 1) != 0
has_bit(x, i) == (x \div Pow2(i)) % 2 = 1

\* x | (1 << i)
or_bit(x, i) == IF has_bit(x, i) THEN x ELSE x + Pow2(i)

\* x & !(1 << i)
and_not_bit(x, i) == IF has_bit(x, i) THEN x - Pow2(i) ELSE x

\* u32::count_ones on an 18-bit value
count_ones(x) == Cardinality({i \in 0..17 : has_bit(x, i)})

\* The set bits of a 9-bit value in increasing order: the order in which
\* trailing_zeros / x &= x - 1 visits them (BoardMoveIterator, BitIter).
BitIter(x) == SelectSeq(<<0, 1, 2, 3, 4, 5, 6, 7, 8>>, LAMBDA i : has_bit(x, i))

FULL_MASK == 511

\* fn compact_grid(grid): (grid | grid >> 9) & FULL_MASK
compact_grid(grid) ==
    LET bit(i) == IF has_bit(grid, i) \/ has_bit(grid, i + 9) THEN Pow2(i) ELSE 0
    IN  bit(0) + bit(1) + bit(2) + bit(3) + bit(4) + bit(5) + bit(6) + bit(7) + bit(8)

\* !compact_grid(grid) & FULL_MASK
free_cells(grid) == FULL_MASK - compact_grid(grid)

\* const WIN_GRIDS: [u32; 16], each entry as its low and its high 16 bits
\* (the entries do not fit the model checker's 32-bit signed integers).
WIN_GRIDS ==
    << <<32896, 32896>>, <<32896, 65408>>, <<43648, 64240>>, <<43648, 65520>>,
       <<32896, 52428>>, <<32896, 65484>>, <<43648, 65276>>, <<43648, 65532>>,
       <<32896, 43690>>, <<61680, 65530>>, <<43648, 64250>>, <<64240, 65530>>,
       <<32896, 61166>>, <<61680, 65534>>, <<65535, 65535>>, <<65535, 65535>> >>

\* fn is_win_grid(grid) that looks up the low 16 bits of the entry only
is_win_gridLowHalf(grid) ==
    LET g == grid % 512
        entry == WIN_GRIDS[(g \div 32) + 1]
    IN  has_bit(entry[1], g % 16)

\* fn is_win_grid(grid)
is_win_grid(grid) ==
    LET g == grid % 512
        entry == WIN_GRIDS[(g \div 32) + 1]
        i == g % 32
    IN  IF i < 16 THEN has_bit(entry[1], i) ELSE has_bit(entry[2], i - 16)

----------------------------------------------------------------------------
(* Board (src/src/board.rs).  A Coord is its u8, 9 * om + os.              *)

Players == {"Player", "Enemy"}
Neutral == "Neutral"

\* Player::other
other(p) == CASE p = "Player" -> "Enemy" [] p = "Enemy" -> "Player"
              [] p = Neutral -> Neutral

\* Player::index
index(p) == CASE p = "Player" -> 0 [] p = "Enemy" -> 1

\* Coord::om, Coord::os
om(coord) == coord \div 9
os(coord) == coord % 9

\* Board::new
BoardNew ==
    [grids |-> [m \in 0..8 |-> 0], main_grid |-> 0, last_move |-> None,
     next_player |-> "Player", won_by |-> None,
     macro_mask |-> FULL_MASK, macro_open |-> FULL_MASK]

\* Board::is_done that never finds the game done
is_doneNever(b) == FALSE

\* Board::is_done
is_done(b) == b.won_by /= None

\* Board::is_available_move
is_available_move(b, coord) ==
    /\ has_bit(b.macro_mask, om(coord))
    /\ ~has_bit(compact_grid(b.grids[om(coord)]), os(coord))

\* BoardMoveIterator: the macros of macro_mask in increasing order, and in
\* each the free cells in increasing order.
RECURSIVE MovesOfMacros(_, _)
MovesOfMacros(b, macros) ==
    IF macros = <<>> THEN <<>>
    ELSE LET m == Head(macros)
             cells == BitIter(free_cells(b.grids[m]))
         IN  [k \in 1..Len(cells) |-> 9 * m + cells[k]]
                 \o MovesOfMacros(b, Tail(macros))

\* Board::available_moves that stops before the last move
available_movesButLast(b) ==
    LET moves == MovesOfMacros(b, BitIter(b.macro_mask))
    IN  IF is_done(b) THEN <<>> ELSE SubSeq(moves, 1, Len(moves) - 1)

\* Board::available_moves
available_moves(b) ==
    IF is_done(b) THEN <<>> ELSE MovesOfMacros(b, BitIter(b.macro_mask))

\* Board::calc_macro_mask that sends the player to macro os, open or not
calc_macro_maskAnyMacro(macro_open, o) == Pow2(o)

\* Board::calc_macro_mask, on the new macro_open
calc_macro_mask(macro_open, o) ==
    IF has_bit(macro_open, o) THEN Pow2(o) ELSE macro_open

\* Board::set_tile_and_update without the draw of lines 322-324
set_tile_and_updateNoDraw(b, player, coord) ==
    LET m == om(coord)
        o == os(coord)
        p == 9 * index(player)
        new_grid == or_bit(b.grids[m], o + p)
        grid_win == is_win_grid(new_grid \div Pow2(p))
        new_main_grid == IF grid_win THEN or_bit(b.main_grid, m + p)
                         ELSE b.main_grid
        won1 == IF grid_win /\ is_win_grid(new_main_grid \div Pow2(p))
                THEN Some(player) ELSE b.won_by
        closes == grid_win \/ count_ones(new_grid) = 9
        new_open == IF closes THEN and_not_bit(b.macro_open, m)
                    ELSE b.macro_open
    IN  [b EXCEPT !.grids[m] = new_grid,
                  !.main_grid = new_main_grid,
                  !.won_by = won1,
                  !.macro_open = new_open,
                  !.macro_mask = calc_macro_mask(new_open, o)]

\* Board::set_tile_and_update
set_tile_and_update(b, player, coord) ==
    LET m == om(coord)
        o == os(coord)
        p == 9 * index(player)
        new_grid == or_bit(b.grids[m], o + p)
        grid_win == is_win_grid(new_grid \div Pow2(p))
        new_main_grid == IF grid_win THEN or_bit(b.main_grid, m + p)
                         ELSE b.main_grid
        won1 == IF grid_win /\ is_win_grid(new_main_grid \div Pow2(p))
                THEN Some(player) ELSE b.won_by
        closes == grid_win \/ count_ones(new_grid) = 9
        new_open == IF closes THEN and_not_bit(b.macro_open, m)
                    ELSE b.macro_open
        won2 == IF closes /\ new_open = 0 /\ won1 = None THEN Some(Neutral) ELSE won1
    IN  [b EXCEPT !.grids[m] = new_grid,
                  !.main_grid = new_main_grid,
                  !.won_by = won2,
                  !.macro_open = new_open,
                  !.macro_mask = calc_macro_mask(new_open, o)]

\* Board::play without the change of turn of line 293.
playSameTurn(b, coord) ==
    [set_tile_and_update(b, b.next_player, coord) EXCEPT !.last_move = Some(coord)]

\* Board::play
play(b, coord) ==
    [set_tile_and_update(b, b.next_player, coord)
        EXCEPT !.last_move = Some(coord), !.next_player = other(b.next_player)]

\* A position given by the plays that lead to it from b, in order; play is
\* for boards that are not done and moves that are available.
RECURSIVE PlayAll(_, _)
PlayAll(b, moves) ==
    IF moves = <<>> \/ is_done(b) \/ ~is_available_move(b, Head(moves)) THEN b
    ELSE PlayAll(play(b, Head(moves)), Tail(moves))

----------------------------------------------------------------------------
(* Bounds of the model.                                                    *)

\* iterations is drawn from 0..MaxIter
MaxIter == 10
\* network.evaluate answers at most MaxEvals times in one run
MaxEvals == 3

\* The positions the searches are started from: each is reached from
\* Board::new() by the plays listed.
Line1 == <<7, 68, 47, 21, 27, 2, 20, 23, 53, 75, 31, 43, 70, 66, 35, 78, 60,
           59, 45, 8, 80, 74, 22, 42, 57, 67, 40, 38, 25, 76, 37, 13, 39, 11,
           19, 15, 58, 41, 46, 6, 55, 62, 0, 5, 44, 54, 56>>
Line2 == <<45, 6, 57, 27, 8, 75, 31, 36, 2, 19, 16, 64, 15, 54, 5, 51, 61, 70,
           66, 28, 17, 77, 49, 43, 65, 23, 53, 74, 22, 44, 73, 25, 68, 29, 20,
           18, 55, 78, 62, 72, 40, 42, 60, 71, 21, 67>>
Line3 == <<69, 59, 53, 80, 78, 60, 55, 14, 49, 37, 16, 68, 47, 23, 50, 63, 0,
           5, 19, 15, 54, 6, 56, 18, 8, 79, 67, 38, 25, 70, 64, 12, 27, 3, 29,
           21, 34, 66, 28, 9, 1, 65, 22, 39, 73, 41, 40, 36>>
Line4 == <<45, 1, 10, 16, 63, 2, 18, 7, 65, 20, 19, 12, 30, 28, 13, 43, 67, 42,
           54, 4, 39, 27, 80, 77, 47, 26, 73, 17, 74, 23, 53, 79, 64, 11, 58,
           37, 15, 55, 14, 50, 49, 44, 76, 72, 34, 29, 62>>

\* Enemy to move, one move left (36), which fills the board: a draw.
Root1 == PlayAll(BoardNew, Line1)
\* Player to move, moves 24 (wins the game) and 26 (one more move, a draw).
Root2 == PlayAll(BoardNew, Line2)
\* Player to move, moves 2 and 4 (each wins the game) and 7 (game goes on).
Root3 == PlayAll(BoardNew, Line3)
\* Enemy to move, moves 75 and 78, the game goes on after both.
Root4 == PlayAll(BoardNew, Line4)
\* A finished game: Root1 after its last move.
DoneBoard == play(Root1, 36)

RootBoards == {Root1, Root2, Root3, Root4}

\* Network values outside [-1, +1]
NetValuesWide == {-2, 0, 2}

\* What the network may answer: a value and a policy over the 81 coords.
NetValues == {-1, 0, 1}
Policies == { [c \in 0..80 |-> 50],
              [c \in 0..80 |-> IF c % 2 = 0 THEN 20 ELSE 60] }
NetworkOutputs == [value : NetValues, policy : Policies]
ExplorationWeights == {1, 2}

----------------------------------------------------------------------------
(* mcts_zero (src/rust/src/mcts_zero.rs).  tree.nodes is a function on     *)
(* 0..(len-1).  total_value and value are sums of network values: integers.*)
(* policy is in hundredths.                                                *)

\* Vec::len
VecLen(v) == Cardinality(DOMAIN v)

\* Vec::extend that writes over the last element
VecExtendOverLast(v, items) ==
    [i \in 0..(VecLen(v) + Len(items) - 1) |->
        IF i < VecLen(v) - 1 THEN v[i] ELSE items[1]]

\* Vec::extend
VecExtend(v, items) ==
    [i \in 0..(VecLen(v) + Len(items) - 1) |->
        IF i < VecLen(v) THEN v[i] ELSE items[i - VecLen(v) + 1]]

\* Node::new with a node that counts as visited already
NodeNewVisited(coord, p) ==
    [coord |-> coord, children_start |-> 0, children_length |-> 0,
     evaluation |-> None, policy |-> p, visits |-> 1, total_value |-> 0]

\* Node::new with an evaluation already
NodeNewEvaluated(coord, p) ==
    [coord |-> coord, children_start |-> 0, children_length |-> 0,
     evaluation |-> Some(0), policy |-> p, visits |-> 0, total_value |-> 0]

\* Node::new
NodeNew(coord, p) ==
    [coord |-> coord, children_start |-> 0, children_length |-> 0,
     evaluation |-> None, policy |-> p, visits |-> 0, total_value |-> 0]

\* Node::children that finds no children
childrenNone(node) == None

\* Node::children
children(node) ==
    IF node.children_start = 0 THEN None
    ELSE Some([start |-> node.children_start, length |-> node.children_length])

\* IdxRange::iter
IdxRangeIter(r) == [k \in 1..r.length |-> r.start + k - 1]

\* An f32 score: NaN, or a number in thousandths.
NaN == [nan |-> TRUE, v |-> 0]
F32(v) == [nan |-> FALSE, v |-> v]

\* OrderedFloat's order: NaN is equal to NaN and greater than every number.
OrderedGreater(a, b) ==
    IF a.nan THEN ~b.nan ELSE (~b.nan /\ a.v > b.v)

\* Iterator::max_by_key folds left to right and keeps the earlier element
\* only when its key is strictly greater: the last maximum wins.
RECURSIVE MaxFold(_, _, _)
MaxFold(keys, best, k) ==
    IF k > Len(keys) THEN best
    ELSE MaxFold(keys, IF OrderedGreater(keys[best], keys[k]) THEN best ELSE k,
                 k + 1)
\* A max_by_key whose choice among equal keys is not the same in a second
\* search: the first maximum there.
max_by_keyUnstable(items, keys) ==
    IF items = <<>> THEN None
    ELSE IF z_ref = None THEN Some(items[MaxFold(keys, 1, 2)])
    ELSE Some(items[Len(keys) + 1
                      - MaxFold([k \in 1..Len(keys) |-> keys[Len(keys) + 1 - k]],
                                1, 2)])

max_by_key(items, keys) ==
    IF items = <<>> THEN None ELSE Some(items[MaxFold(keys, 1, 2)])

\* An iterator that is not reversed
NotRev(s) == s

\* Iterator::rev
Rev(s) == [k \in 1..Len(s) |-> s[Len(s) + 1 - k]]

\* floor(sqrt(n))
RECURSIVE IsqrtFrom(_, _)
IsqrtFrom(n, r) == IF (r + 1) * (r + 1) > n THEN r ELSE IsqrtFrom(n, r + 1)
RECURSIVE Isqrt(_)
Isqrt(n) == IF n < 4 THEN IsqrtFrom(n, 0)
            ELSE IsqrtFrom(n, 2 * Isqrt(n \div 4))

\* Node::value: total_value / visits; 0.0 / 0 is NaN
NodeValue(node) ==
    IF node.visits = 0 THEN NaN
    ELSE F32((1000 * node.total_value) \div node.visits)

\* Node::uct without the division by 1 + visits
uctNoVisits(node, ew, parent_visits) ==
    LET q == NodeValue(node)
        u == (node.policy * Isqrt(parent_visits * 1000000)) \div 100
    IN  IF q.nan THEN NaN ELSE F32(q.v + ew * u)

\* Node::uct
uct(node, ew, parent_visits) ==
    LET q == NodeValue(node)
        u == (node.policy * Isqrt(parent_visits * 1000000))
                 \div (100 * (1 + node.visits))
    IN  IF q.nan THEN NaN ELSE F32(q.v + ew * u)

\* Tree::best_move, as an Option: None where one of its expect()s panics
best_move(t) ==
    LET ch == children(t[0])
        it == Rev(IdxRangeIter(Unwrap(ch)))
        best_child == max_by_key(it, [k \in 1..Len(it) |-> F32(t[it[k]].visits)])
    IN  IF ch = None \/ best_child = None THEN None
        ELSE Some(t[Unwrap(best_child)].coord)

\* The selection step of mcts_zero_build_tree (lines 181-184)
SelectChild(t, node, ew) ==
    LET it == IdxRangeIter(Unwrap(children(t[node])))
        parent_visits == t[node].visits
    IN  max_by_key(it, [k \in 1..Len(it) |-> uct(t[it[k]], ew, parent_visits)])

\* The update loop with the first node of the list (the root) left out
RECURSIVE BackpropSkipRoot(_, _, _)
BackpropSkipRoot(t, list, v) ==
    IF Len(list) <= 1 THEN [tree |-> t, value |-> v]
    ELSE LET update_node == list[Len(list)]
             nv == -v
         IN  BackpropSkipRoot([t EXCEPT ![update_node].visits = @ + 1,
                                        ![update_node].total_value = @ + nv],
                              SubSeq(list, 1, Len(list) - 1), nv)

\* The update loop with the value added before it is negated
RECURSIVE BackpropAddFirst(_, _, _)
BackpropAddFirst(t, list, v) ==
    IF list = <<>> THEN [tree |-> t, value |-> v]
    ELSE LET update_node == list[Len(list)]
         IN  BackpropAddFirst([t EXCEPT ![update_node].visits = @ + 1,
                                        ![update_node].total_value = @ + v],
                              SubSeq(list, 1, Len(list) - 1), -v)

\* The update loop of mcts_zero_build_tree (lines 190-196), from the last
\* node of the list to the first: the tree and the value it ends with.
RECURSIVE Backprop(_, _, _)
Backprop(t, list, v) ==
    IF list = <<>> THEN [tree |-> t, value |-> v]
    ELSE LET update_node == list[Len(list)]
             nv == -v
         IN  Backprop([t EXCEPT ![update_node].visits = @ + 1,
                                ![update_node].total_value = @ + nv],
                      SubSeq(list, 1, Len(list) - 1), nv)

\* Lines 130-137: the two asserts, then the tree with its root node.
ZCall ==
    /\ UNCHANGED <<mvars, cvars, rvars, sel, z_ref, net_memo, network, lvars>>
    /\ zpc = "call"
    /\ IF iterations > 0 /\ ~is_done(board)
       THEN /\ zpc' = "loop"
            /\ tree' = VecExtend(<<>>, <<NodeNew(0, 100)>>)
            /\ walks' = VecExtend(<<>>, <<0>>)
       ELSE /\ zpc' = "panic"
            /\ UNCHANGED <<tree, walks>>
    /\ UNCHANGED <<z_best_move, board, iterations, exploration_weight, parent_list,
                   curr_node, curr_board, value, done_iters, evals, tree0,
                   leaf_value>>

\* Lines 139-143: the head of one iteration.
ZBegin ==
    /\ UNCHANGED <<mvars, cvars, rvars, sel, z_ref, net_memo, network, lvars>>
    /\ zpc = "loop"
    /\ done_iters < iterations
    /\ zpc' = "walk"
    /\ parent_list' = <<>>
    /\ curr_node' = 0
    /\ curr_board' = board
    /\ tree0' = tree
    /\ UNCHANGED <<z_best_move, board, iterations, exploration_weight, tree, value,
                   done_iters, evals, walks, leaf_value>>

\* Lines 146-152: the walk is at a finished game.
ZTerminal ==
    /\ UNCHANGED <<mvars, cvars, rvars, sel, z_ref, net_memo, network, lvars>>
    /\ zpc = "walk"
    /\ curr_board.won_by /= None
    /\ parent_list' = Append(parent_list, curr_node)
    /\ walks' = [walks EXCEPT ![curr_node] = @ + 1]
    /\ value' = IF Unwrap(curr_board.won_by) = Neutral THEN 0 ELSE -1
    /\ leaf_value' = value'
    /\ zpc' = "backprop"
    /\ UNCHANGED <<z_best_move, board, iterations, exploration_weight, tree, curr_node,
                   curr_board, done_iters, evals, tree0>>

\* Lines 146, 155-176: the walk is at a node without children; the network
\* evaluates its board and the node gets a child per available move.
\* network.evaluate(&curr_board), line 154: any output; in a second search
\* with the same network, the output it gave for the board before.
NetAnswers(b) ==
    LET known == {m.out : m \in {n \in net_memo : n.board = b}}
    IN  IF z_ref /= None /\ known /= {} THEN known ELSE network

ZExpand ==
    /\ UNCHANGED <<mvars, cvars, rvars, sel, z_ref, network, lvars>>
    /\ zpc = "walk"
    /\ curr_board.won_by = None
    /\ children(tree[curr_node]) = None
    /\ Len(evals) < MaxEvals \/ Cardinality(network) = 1
    /\ \E evaluation \in NetAnswers(curr_board) :
          LET moves == available_moves(curr_board)
              start == VecLen(tree)
              nodes == VecExtend(tree,
                         [k \in 1..Len(moves) |->
                            NodeNew(moves[k], evaluation.policy[moves[k]])])
              length == VecLen(nodes) - start
          IN  /\ net_memo' = net_memo \cup {[board |-> curr_board,
                                               out |-> evaluation]}
              /\ parent_list' = Append(parent_list, curr_node)
              /\ evals' = Append(evals, curr_node)
              /\ IF length > 0
                 THEN /\ tree' = [nodes EXCEPT
                                    ![curr_node].children_start = start,
                                    ![curr_node].children_length = length,
                                    ![curr_node].evaluation =
                                        Some(evaluation.value)]
                      /\ walks' = [VecExtend(walks, [k \in 1..length |-> 0])
                                      EXCEPT ![curr_node] = @ + 1]
                      /\ value' = evaluation.value
                      /\ leaf_value' = evaluation.value
                      /\ zpc' = "backprop"
                 ELSE /\ tree' = nodes
                      /\ walks' = [walks EXCEPT ![curr_node] = @ + 1]
                      /\ zpc' = "panic"
                      /\ UNCHANGED <<value, leaf_value>>
    /\ UNCHANGED <<z_best_move, board, iterations, exploration_weight, curr_node,
                   curr_board, done_iters, tree0>>

\* Lines 146, 177-187: the walk goes on with the best child.
ZSelect ==
    /\ UNCHANGED <<mvars, cvars, rvars, sel, z_ref, net_memo, network, lvars>>
    /\ zpc = "walk"
    /\ curr_board.won_by = None
    /\ children(tree[curr_node]) /= None
    /\ LET selected == SelectChild(tree, curr_node, exploration_weight)
       IN  /\ parent_list' = Append(parent_list, curr_node)
           /\ walks' = [walks EXCEPT ![curr_node] = @ + 1]
           /\ IF selected = None
              THEN /\ zpc' = "panic"
                   /\ UNCHANGED <<curr_node, curr_board>>
              ELSE /\ zpc' = "walk"
                   /\ curr_node' = Unwrap(selected)
                   /\ curr_board' = play(curr_board,
                                         tree[Unwrap(selected)].coord)
    /\ UNCHANGED <<z_best_move, board, iterations, exploration_weight, tree, value,
                   done_iters, evals, tree0, leaf_value>>

\* Lines 190-196: the update of the nodes of parent_list, last to first.
ZBackprop ==
    /\ UNCHANGED <<mvars, cvars, rvars, sel, z_ref, net_memo, network, lvars>>
    /\ zpc = "backprop"
    /\ LET r == Backprop(tree, parent_list, value)
       IN  /\ tree' = r.tree
           /\ value' = r.value
    /\ done_iters' = done_iters + 1
    /\ zpc' = "loop"
    /\ UNCHANGED <<z_best_move, board, iterations, exploration_weight, parent_list,
                   curr_node, curr_board, evals, walks, tree0, leaf_value>>

\* Lines 199-200: the final assert_eq and the return.
ZReturn ==
    /\ UNCHANGED <<mvars, cvars, rvars, sel, z_ref, net_memo, network, lvars>>
    /\ zpc = "loop"
    /\ done_iters = iterations
    /\ zpc' = IF iterations = tree[0].visits THEN "done" ELSE "panic"
    /\ UNCHANGED <<z_best_move, board, iterations, exploration_weight, tree, parent_list,
                   curr_node, curr_board, value, done_iters, evals, walks,
                   tree0, leaf_value>>

\* MCTSZeroBot::play, lines 224-225: the move of the tree just built.
ZBestMove ==
    /\ UNCHANGED <<mvars, cvars, rvars, sel, z_ref, net_memo, network, lvars>>
    /\ zpc = "done"
    /\ LET coord == best_move(tree)
       IN  IF coord = None
           THEN zpc' = "panic" /\ UNCHANGED z_best_move
           ELSE zpc' = "moved" /\ z_best_move' = coord
    /\ UNCHANGED <<board, iterations, exploration_weight, tree, parent_list,
                   curr_node, curr_board, value, done_iters, evals, walks,
                   tree0, leaf_value>>

ZIdle ==
    /\ zpc = "idle" /\ board = BoardNew /\ iterations = 0
    /\ exploration_weight = 0 /\ tree = <<>> /\ parent_list = <<>>
    /\ curr_node = 0 /\ curr_board = BoardNew /\ value = 0 /\ done_iters = 0
    /\ evals = <<>> /\ walks = <<>> /\ tree0 = <<>> /\ leaf_value = 0
    /\ z_best_move = None /\ z_ref = None /\ net_memo = {}
    /\ network = {}

ZInit ==
    /\ zpc = "call"
    /\ board \in RootBoards \cup {DoneBoard}
    /\ iterations \in 0..MaxIter
    /\ exploration_weight \in ExplorationWeights
    /\ tree = <<>> /\ parent_list = <<>>
    /\ curr_node = 0 /\ curr_board = board /\ value = 0 /\ done_iters = 0
    /\ evals = <<>> /\ walks = <<>> /\ tree0 = <<>> /\ leaf_value = 0
    /\ z_best_move = None /\ z_ref = None /\ net_memo = {}
    /\ network = NetworkOutputs

\* Two more positions of Line3, with 3 and 4 moves and no decided game
\* within three plays.
Root5 == PlayAll(BoardNew, SubSeq(Line3, 1, 37))
Root6 == PlayAll(BoardNew, SubSeq(Line3, 1, 30))

\* The network that answers value 0 and the same policy for every move.
UniformZero == [value |-> 0, policy |-> [c \in 0..80 |-> 50]]

\* mcts_zero_build_tree called with that network.
ZInitUniform ==
    /\ zpc = "call"
    /\ board \in RootBoards \cup {Root5, Root6}
    /\ iterations \in 0..MaxIter
    /\ exploration_weight \in ExplorationWeights
    /\ tree = <<>> /\ parent_list = <<>>
    /\ curr_node = 0 /\ curr_board = board /\ value = 0 /\ done_iters = 0
    /\ evals = <<>> /\ walks = <<>> /\ tree0 = <<>> /\ leaf_value = 0
    /\ z_best_move = None /\ z_ref = None /\ net_memo = {}
    /\ network = {UniformZero}

\* MCTSZeroBot::play (lines 221-226) called once more on the same board:
\* the tree and the move of the first call are kept for comparison.
ZRerun ==
    /\ UNCHANGED <<mvars, cvars, rvars, sel, lvars>>
    /\ zpc = "moved"
    /\ z_ref = None
    /\ z_ref' = Some([tree |-> tree, best_move |-> z_best_move])
    /\ zpc' = "call"
    /\ tree' = <<>> /\ parent_list' = <<>>
    /\ curr_node' = 0 /\ curr_board' = board /\ value' = 0 /\ done_iters' = 0
    /\ evals' = <<>> /\ walks' = <<>> /\ tree0' = <<>> /\ leaf_value' = 0
    /\ z_best_move' = None
    /\ UNCHANGED <<board, iterations, exploration_weight, net_memo, network>>

ZNext ==
    \/ ZCall \/ ZBegin \/ ZTerminal \/ ZExpand \/ ZSelect \/ ZBackprop
    \/ ZReturn \/ ZBestMove

\* The board of a node: the root board after the moves on the way to it
\* (curr_board.play(tree[curr_node].coord) along the walk, lines 186-187).
ParentOf(t, i) ==
    CHOOSE j \in DOMAIN t :
        /\ t[j].children_start /= 0
        /\ t[j].children_start <= i
        /\ i < t[j].children_start + t[j].children_length
RECURSIVE NodeBoard(_, _)
NodeBoard(t, i) ==
    IF i = 0 THEN board ELSE play(NodeBoard(t, ParentOf(t, i)), t[i].coord)

----------------------------------------------------------------------------
(* mcts_evaluate (src/src/mcts/mod.rs).  tree is a function on 0..(len-1); *)
(* a node's parent and children are Options; the random generator is a     *)
(* choice among the values it can return.                                  *)

\* iterations of mcts_evaluate is drawn from 0..MaxMctsIter
MaxMctsIter == 8

\* if eval_queue.len() >= 100 (line 179)
BatchCap == 100
\* The searches are also run with the cap at SmallCap, which a queue of the
\* boards above reaches.
SmallCap == 3

\* What heuristic.evaluate may answer, in thousandths (ZeroHeuristic: 0).
HeuristicValues == {0, 500}

\* Node::new of mcts/mod.rs
MNodeNew(coord, parent) ==
    [coord |-> coord, parent |-> parent, children |-> None, visits |-> 0,
     wins |-> 0, needs_eval |-> FALSE]

\* IdxRange::iter of mcts/mod.rs: start..end
MIdxRangeIter(r) == [k \in 1..(r.end - r.start) |-> r.start + k - 1]

\* f32::ln in thousandths, for 1..20
LnMilli == <<0, 693, 1099, 1386, 1609, 1792, 1946, 2079, 2197, 2303, 2398,
             2485, 2565, 2639, 2708, 2773, 2833, 2890, 2944, 2996>>

\* Node::uct of mcts/mod.rs.  0/0 is NaN, ln(0) is -inf and its square root NaN.
m_uct(node, parent_visits, heuristic) ==
    IF node.visits = 0 \/ parent_visits = 0 THEN NaN
    ELSE F32((1000 * node.wins) \div node.visits
             + Isqrt((2 * LnMilli[parent_visits] * 1000) \div node.visits)
             + heuristic \div (node.visits + 1))

\* get_nth_set_bit(!compact_grid(grid), n): the complement is not masked, so
\* the bits from 9 up are all set.
get_nth_set_bit_free(grid, n) ==
    LET free == SelectSeq(<<0, 1, 2, 3, 4, 5, 6, 7, 8, 9, 10, 11, 12, 13, 14,
                            15, 16, 17>>,
                          LAMBDA i : i >= 9 \/ ~has_bit(compact_grid(grid), i))
    IN  free[n + 1]

\* Board::random_available_move, lines 254-257: count
RECURSIVE MoveCount(_, _)
MoveCount(b, macros) ==
    IF macros = <<>> THEN 0
    ELSE (9 - count_ones(b.grids[Head(macros)])) + MoveCount(b, Tail(macros))

\* Board::random_available_move, lines 261-271: the move of a drawn index
RECURSIVE MoveOfIndex(_, _, _)
MoveOfIndex(b, macros, idx) ==
    LET m == Head(macros)
        grid_count == 9 - count_ones(b.grids[m])
    IN  IF idx < grid_count THEN 9 * m + get_nth_set_bit_free(b.grids[m], idx)
        ELSE MoveOfIndex(b, Tail(macros), idx - grid_count)

\* Board::random_available_move: the moves it can return
random_available_move(b) ==
    IF is_done(b) THEN {None}
    ELSE LET macros == BitIter(b.macro_mask)
             count == MoveCount(b, macros)
         IN  {Some(MoveOfIndex(b, macros, idx)) : idx \in 0..(count - 1)}

\* The loop of random plays (lines 145-152, 211-218): the won_by it can end with
RECURSIVE RolloutWinners(_)
RolloutWinners(b) ==
    IF b.won_by /= None THEN {Unwrap(b.won_by)}
    ELSE UNION {RolloutWinners(play(b, Unwrap(mv))) :
                    mv \in random_available_move(b)}

\* Lines 143-159, 209-225: the values of won before the update loop;
\* rand.gen() decides a draw.
WonOutcomes(b) ==
    LET curr_player == b.next_player
    IN  UNION {IF won_by /= Neutral THEN {won_by = curr_player} ELSE BOOLEAN :
                   won_by \in RolloutWinners(b)}

\* Lines 132-140 without the walk to the root: the visit of the node only
IncrementVisitsLeaf(t, n) == [t EXCEPT ![n].visits = @ + 1]

\* Lines 132-140: visits incremented from the node up to the root
RECURSIVE IncrementVisits(_, _)
IncrementVisits(t, n) ==
    LET t2 == [t EXCEPT ![n].visits = @ + 1]
    IN  IF t[n].parent = None THEN t2
        ELSE IncrementVisits(t2, Unwrap(t[n].parent))

\* Lines 161-175: the update loop of the unbatched search
RECURSIVE UpdateRollout(_, _, _)
UpdateRollout(t, n, won) ==
    LET w == ~won
        t2 == [t EXCEPT ![n].visits = @ + 1,
                        ![n].wins = @ + (IF w THEN 1 ELSE 0)]
    IN  IF t[n].parent = None THEN t2
        ELSE UpdateRollout(t2, Unwrap(t[n].parent), w)

\* Lines 229-242: the update loop of do_batch_evals, wins only
RECURSIVE UpdateBatch(_, _, _)
UpdateBatch(t, n, won) ==
    LET w == ~won
        t2 == [t EXCEPT ![n].wins = @ + (IF w THEN 1 ELSE 0)]
    IN  IF t[n].parent = None THEN t2
        ELSE UpdateBatch(t2, Unwrap(t[n].parent), w)

\* do_batch_evals without line 227: needs_eval stays set
RECURSIVE do_batch_evalsKeepFlag(_, _)
do_batch_evalsKeepFlag(t, queue) ==
    IF queue = <<>> THEN {t}
    ELSE LET e == Head(queue)
         IN  UNION {do_batch_evalsKeepFlag(UpdateBatch(t, e.node, won),
                                           Tail(queue)) :
                    won \in WonOutcomes(e.board)}

\* do_batch_evals that handles the first entry of the queue only
do_batch_evalsFirst(t, queue) ==
    IF queue = <<>> THEN {t}
    ELSE LET e == Head(queue)
         IN  {UpdateBatch([t EXCEPT ![e.node].needs_eval = FALSE],
                          e.node, won) : won \in WonOutcomes(e.board)}

\* do_batch_evals: the trees it can leave; the queue is drained.
RECURSIVE do_batch_evals(_, _)
do_batch_evals(t, queue) ==
    IF queue = <<>> THEN {t}
    ELSE LET e == Head(queue)
         IN  UNION {do_batch_evals(
                        UpdateBatch([t EXCEPT ![e.node].needs_eval = FALSE],
                                    e.node, won),
                        Tail(queue)) :
                    won \in WonOutcomes(e.board)}

\* Lines 178-183 with > in the place of >=
CapFlushLate(t, queue) ==
    IF Len(queue) > batch_cap
    THEN {[tree |-> t2, queue |-> <<>>] : t2 \in do_batch_evals(t, queue)}
    ELSE {[tree |-> t, queue |-> queue]}

\* Lines 178-183: the batch is evaluated once the queue holds the cap
\* (BatchCap in the code) entries
CapFlush(t, queue) ==
    IF Len(queue) >= batch_cap
    THEN {[tree |-> t2, queue |-> <<>>] : t2 \in do_batch_evals(t, queue)}
    ELSE {[tree |-> t, queue |-> queue]}

\* Lines 81-92: the children of the node, created on its first visit
InitChildren(t, node, b) ==
    IF t[node].children /= None THEN t
    ELSE LET moves == available_moves(b)
             start == VecLen(t)
             nodes == VecExtend(t, [k \in 1..Len(moves) |->
                                       MNodeNew(moves[k], Some(node))])
         IN  [nodes EXCEPT ![node].children =
                               Some([start |-> start, end |-> VecLen(nodes)])]

\* Lines 95-97: the children without a visit, in order
Unexplored(t, node) ==
    SelectSeq(MIdxRangeIter(Unwrap(t[node].children)),
              LAMBDA c : t[c].visits = 0)

\* Lines 191-200: the best move of the returned Evaluation
m_best_move(t, b) ==
    IF t[0].children = None THEN random_available_move(b)
    ELSE LET it == Rev(MIdxRangeIter(Unwrap(t[0].children)))
             best == max_by_key(it, [k \in 1..Len(it) |-> F32(t[it[k]].visits)])
         IN  {IF best = None THEN None ELSE Some(t[Unwrap(best)].coord)}

\* Lines 69-73: the tree with its root node, the empty queue.
MCall ==
    /\ UNCHANGED <<zvars, cvars, rvars, sel, ref_tree, batch_cap, lvars>>
    /\ mpc = "call"
    /\ m_tree' = VecExtend(<<>>, <<MNodeNew(0, None)>>)
    /\ eval_queue' = <<>>
    /\ mpc' = "loop"
    /\ UNCHANGED <<m_board, m_iterations, batch_eval, m_curr_node,
                   m_curr_board, m_done_iters, m_result>>

\* Lines 75-77: the head of one iteration.
MBegin ==
    /\ UNCHANGED <<zvars, cvars, rvars, sel, ref_tree, batch_cap, lvars>>
    /\ mpc = "loop"
    /\ m_done_iters < m_iterations
    /\ m_curr_node' = 0
    /\ m_curr_board' = m_board
    /\ mpc' = "walk"
    /\ UNCHANGED <<m_board, m_iterations, batch_eval, m_tree, eval_queue,
                   m_done_iters, m_result>>

\* Lines 79-107: one turn of the while loop that ends at a child without a
\* visit, drawn at random.
MExplore ==
    /\ UNCHANGED <<zvars, cvars, rvars, sel, ref_tree, batch_cap, lvars>>
    /\ mpc = "walk"
    /\ ~is_done(m_curr_board)
    /\ LET t2 == InitChildren(m_tree, m_curr_node, m_curr_board)
           unexplored_children == Unexplored(t2, m_curr_node)
           count == Len(unexplored_children)
       IN  /\ count /= 0
           /\ \E r \in 0..(count - 1) :
                 LET child == unexplored_children[r + 1]
                 IN  /\ m_tree' = t2
                     /\ m_curr_node' = child
                     /\ m_curr_board' = play(m_curr_board, t2[child].coord)
    /\ mpc' = "simulate"
    /\ UNCHANGED <<m_board, m_iterations, batch_eval, eval_queue,
                   m_done_iters, m_result>>

\* Lines 79-92, 109-118: one turn of the while loop that goes on with the
\* child of the highest uct.
MSelect ==
    /\ UNCHANGED <<zvars, cvars, rvars, sel, ref_tree, batch_cap, lvars>>
    /\ mpc = "walk"
    /\ ~is_done(m_curr_board)
    /\ LET t2 == InitChildren(m_tree, m_curr_node, m_curr_board)
           it == MIdxRangeIter(Unwrap(t2[m_curr_node].children))
           parent_visits == t2[m_curr_node].visits
       IN  /\ Len(Unexplored(t2, m_curr_node)) = 0
           /\ \E heuristic \in HeuristicValues :
                 LET selected ==
                         max_by_key(it, [k \in 1..Len(it) |->
                             m_uct(t2[it[k]], parent_visits, heuristic)])
                 IN  /\ m_tree' = t2
                     /\ IF selected = None
                        THEN /\ mpc' = "panic"
                             /\ UNCHANGED <<m_curr_node, m_curr_board>>
                        ELSE /\ mpc' = "walk"
                             /\ m_curr_node' = Unwrap(selected)
                             /\ m_curr_board' =
                                    play(m_curr_board,
                                         t2[Unwrap(selected)].coord)
    /\ UNCHANGED <<m_board, m_iterations, batch_eval, eval_queue,
                   m_done_iters, m_result>>

\* Line 79: the while loop ends at a finished game.
MWalkEnd ==
    /\ UNCHANGED <<zvars, cvars, rvars, sel, ref_tree, batch_cap, lvars>>
    /\ mpc = "walk"
    /\ is_done(m_curr_board)
    /\ mpc' = "simulate"
    /\ UNCHANGED <<m_board, m_iterations, batch_eval, m_tree, eval_queue,
                   m_curr_node, m_curr_board, m_done_iters, m_result>>

\* Lines 122-126, 178-183: the node is in the queue already; the queue is
\* evaluated and the iteration ends.
MFlush ==
    /\ UNCHANGED <<zvars, cvars, rvars, sel, ref_tree, batch_cap, lvars>>
    /\ mpc = "simulate"
    /\ batch_eval
    /\ m_tree[m_curr_node].needs_eval
    /\ \E t2 \in do_batch_evals(m_tree, eval_queue) :
          \E r \in CapFlush(t2, <<>>) :
             /\ m_tree' = r.tree
             /\ eval_queue' = r.queue
    /\ m_done_iters' = m_done_iters + 1
    /\ mpc' = "loop"
    /\ UNCHANGED <<m_board, m_iterations, batch_eval, m_curr_node,
                   m_curr_board, m_result>>

\* Lines 122, 127-141, 178-183: the node is queued and the visits on the way
\* to the root are incremented.
MQueue ==
    /\ UNCHANGED <<zvars, cvars, rvars, sel, ref_tree, batch_cap, lvars>>
    /\ mpc = "simulate"
    /\ batch_eval
    /\ ~m_tree[m_curr_node].needs_eval
    /\ LET t2 == IncrementVisits(
                     [m_tree EXCEPT ![m_curr_node].needs_eval = TRUE],
                     m_curr_node)
           q2 == Append(eval_queue,
                        [node |-> m_curr_node, board |-> m_curr_board])
       IN  \E r \in CapFlush(t2, q2) :
              /\ m_tree' = r.tree
              /\ eval_queue' = r.queue
    /\ m_curr_node' = 0
    /\ m_done_iters' = m_done_iters + 1
    /\ mpc' = "loop"
    /\ UNCHANGED <<m_board, m_iterations, batch_eval, m_curr_board, m_result>>

\* Lines 142-176: the random playout and the update of the unbatched search.
MRollout ==
    /\ UNCHANGED <<zvars, cvars, rvars, sel, ref_tree, batch_cap, lvars>>
    /\ mpc = "simulate"
    /\ ~batch_eval
    /\ \E won \in WonOutcomes(m_curr_board) :
          m_tree' = UpdateRollout(m_tree, m_curr_node, won)
    /\ m_curr_node' = 0
    /\ m_done_iters' = m_done_iters + 1
    /\ mpc' = "loop"
    /\ UNCHANGED <<m_board, m_iterations, batch_eval, eval_queue,
                   m_curr_board, m_result>>

\* Lines 186-203: the last batch, the best move, the return.
MFinish ==
    /\ UNCHANGED <<zvars, cvars, rvars, sel, ref_tree, batch_cap, lvars>>
    /\ mpc = "loop"
    /\ m_done_iters = m_iterations
    /\ \E t2 \in (IF batch_eval THEN do_batch_evals(m_tree, eval_queue)
                  ELSE {m_tree}) :
          /\ m_tree' = t2
          /\ \E bm \in m_best_move(t2, m_board) : m_result' = bm
    /\ eval_queue' = IF batch_eval THEN <<>> ELSE eval_queue
    /\ mpc' = "done"
    /\ UNCHANGED <<m_board, m_iterations, batch_eval, m_curr_node,
                   m_curr_board, m_done_iters>>

MInit ==
    /\ mpc = "call"
    /\ m_board \in RootBoards \cup {DoneBoard}
    /\ m_iterations \in 0..MaxMctsIter
    /\ batch_eval \in BOOLEAN
    /\ m_tree = <<>> /\ eval_queue = <<>>
    /\ m_curr_node = 0 /\ m_curr_board = m_board /\ m_done_iters = 0
    /\ m_result = None /\ ref_tree = <<>>
    /\ batch_cap \in {BatchCap, SmallCap}

\* MCTSBot::new and MCTSBot::new_with_batch_eval (lines 253-261) on the same
\* board and iterations: after the search with batch_eval = false has
\* returned its tree is kept and the search is called with batch_eval = true.
MRerun ==
    /\ UNCHANGED <<zvars, cvars, rvars, sel, lvars>>
    /\ mpc = "done"
    /\ ~batch_eval
    /\ ref_tree = <<>>
    /\ ref_tree' = m_tree
    /\ batch_eval' = TRUE
    /\ mpc' = "call"
    /\ m_tree' = <<>> /\ eval_queue' = <<>>
    /\ m_curr_node' = 0 /\ m_curr_board' = m_board /\ m_done_iters' = 0
    /\ m_result' = None
    /\ UNCHANGED <<m_board, m_iterations, batch_cap>>

MNext ==
    \/ MCall \/ MBegin \/ MExplore \/ MSelect \/ MWalkEnd \/ MFlush
    \/ MQueue \/ MRollout \/ MFinish

----------------------------------------------------------------------------
(* StartGameCounter (src/rust/src/selfplay/mod.rs, lines 56-73).  A call   *)
(* of request_up_to is four steps of its thread: lock, min, subtract,      *)
(* return (which drops the guard).                                         *)

\* at most NumWorkers threads
NumWorkers == 2
\* StartGameCounter::new(left), Settings.game_count: drawn from 0..MaxGames
MaxGames == 2
\* max_count is drawn from 0..MaxRequest
MaxRequest == 2
\* request_up_to is called at most MaxCalls times in one run of the counter
MaxCalls == 3

Workers == DOMAIN wpc

\* std::cmp::min replaced by its second argument
MinIsSecond(a, b) == b

\* std::cmp::min
min(a, b) == IF a <= b THEN a ELSE b

\* A mutex that never makes a thread wait
MutexNeverHeld(h) == TRUE

\* Mutex::lock (line 68) returns once no thread holds the guard
MutexFree(h) == h = None

InCall(w) == wpc[w] \in {"lock", "min", "sub", "unlock"}

\* A thread calls request_up_to(max_count).
CRequest(w) ==
    /\ UNCHANGED <<zvars, mvars, rvars, sel, lvars>>
    /\ w \in Workers
    /\ wpc[w] \in {"idle", "returned"}
    /\ Len(returned) + Cardinality({v \in Workers : InCall(v)}) < MaxCalls
    /\ \E mc \in 0..MaxRequest : max_count' = [max_count EXCEPT ![w] = mc]
    /\ wpc' = [wpc EXCEPT ![w] = "lock"]
    /\ UNCHANGED <<left, left0, holder, picked, seen_left, returned>>

\* Line 68: let mut left = self.left.lock().unwrap()
CLock(w) ==
    /\ UNCHANGED <<zvars, mvars, rvars, sel, lvars>>
    /\ w \in Workers
    /\ wpc[w] = "lock"
    /\ MutexFree(holder)
    /\ holder' = Some(w)
    /\ seen_left' = [seen_left EXCEPT ![w] = left]
    /\ wpc' = [wpc EXCEPT ![w] = "min"]
    /\ UNCHANGED <<left, left0, max_count, picked, returned>>

\* Line 69: let picked = min(*left, max_count)
CMin(w) ==
    /\ UNCHANGED <<zvars, mvars, rvars, sel, lvars>>
    /\ w \in Workers
    /\ wpc[w] = "min"
    /\ picked' = [picked EXCEPT ![w] = min(left, max_count[w])]
    /\ wpc' = [wpc EXCEPT ![w] = "sub"]
    /\ UNCHANGED <<left, left0, holder, max_count, seen_left, returned>>

\* Line 70: *left -= picked.  A u64 below 0 is a panic of the debug build
\* and a wrap of the release build: "overflow" stands for both.
CSub(w) ==
    /\ UNCHANGED <<zvars, mvars, rvars, sel, lvars>>
    /\ w \in Workers
    /\ wpc[w] = "sub"
    /\ IF picked[w] <= left
       THEN /\ left' = left - picked[w]
            /\ wpc' = [wpc EXCEPT ![w] = "unlock"]
       ELSE /\ left' = left
            /\ wpc' = [wpc EXCEPT ![w] = "overflow"]
    /\ UNCHANGED <<left0, holder, max_count, picked, seen_left, returned>>

\* Lines 71-72: picked is returned and the guard dropped.
CReturn(w) ==
    /\ UNCHANGED <<zvars, mvars, rvars, sel, lvars>>
    /\ w \in Workers
    /\ wpc[w] = "unlock"
    /\ holder' = IF holder = Some(w) THEN None ELSE holder
    /\ returned' = Append(returned,
                          [worker |-> w, max_count |-> max_count[w],
                           left |-> seen_left[w], picked |-> picked[w]])
    /\ wpc' = [wpc EXCEPT ![w] = "returned"]
    /\ UNCHANGED <<left, left0, max_count, picked, seen_left>>

\* StartGameCounter::new(left) and the threads that share it.
CInit ==
    /\ left \in 0..MaxGames
    /\ left0 = left
    /\ holder = None
    /\ \E n \in 1..NumWorkers :
          /\ wpc = [w \in 1..n |-> "idle"]
          /\ max_count = [w \in 1..n |-> 0]
          /\ picked = [w \in 1..n |-> 0]
          /\ seen_left = [w \in 1..n |-> 0]
    /\ returned = <<>>

CNext ==
    \/ \E w \in 1..NumWorkers : CRequest(w)
    \/ \E w \in 1..NumWorkers : CLock(w)
    \/ \E w \in 1..NumWorkers : CMin(w)
    \/ \E w \in 1..NumWorkers : CSub(w)
    \/ \E w \in 1..NumWorkers : CReturn(w)

----------------------------------------------------------------------------
(* Settings::run (src/rust/src/selfplay/mod.rs, lines 98-139): the thread  *)
(* of run creates the channel and the counter, spawns the workers and      *)
(* collects.  The loop of a worker (Generator::thread_main) and the        *)
(* collector (collect::collect) follow their description: a worker claims  *)
(* one game, plays it and sends one Simulation until the counter gives 0;  *)
(* the collector receives until game_count Simulations have arrived or the *)
(* channel is disconnected.                                                *)

\* run owns the only Sender (line 112; the workers borrow it, line 123) and
\* drops it when it returns.
SenderAlive == run_pc /= "returned"

\* Receiver::recv fails once the channel is empty and no Sender is left.
Disconnected == channel = <<>> /\ ~SenderAlive

\* Lines 100-110: the settings are printed, the output folder and the output
\* file are created; nothing of the settings is checked.
ROpen ==
    /\ UNCHANGED <<zvars, mvars, cvars, sel, lvars>>
    /\ run_pc = "call"
    /\ output_file' = TRUE
    /\ run_pc' = "opened"
    /\ UNCHANGED <<game_count, channel, received, sent, gen_iterations>>

\* Lines 112-130: the channel, the counter of game_count games, one thread
\* per thread_params entry.
RSpawn ==
    /\ UNCHANGED <<zvars, mvars, sel, lvars>>
    /\ run_pc = "opened"
    /\ channel' = <<>>
    /\ left' = game_count
    /\ left0' = game_count
    /\ holder' = None
    /\ \E n \in 1..NumWorkers :
          /\ wpc' = [w \in 1..n |-> "start"]
          /\ max_count' = [w \in 1..n |-> 0]
          /\ picked' = [w \in 1..n |-> 0]
          /\ seen_left' = [w \in 1..n |-> 0]
    /\ run_pc' = "collect"
    /\ UNCHANGED <<returned, gen_iterations, output_file, game_count, received,
                   sent>>

\* A worker asks the counter for one game.
WClaim(w) ==
    /\ UNCHANGED <<zvars, mvars, rvars, sel, lvars>>
    /\ w \in Workers
    /\ wpc[w] = "start"
    /\ max_count' = [max_count EXCEPT ![w] = 1]
    /\ wpc' = [wpc EXCEPT ![w] = "lock"]
    /\ UNCHANGED <<left, left0, holder, picked, seen_left, returned>>

\* assert!(iterations > 0) of mcts_zero_build_tree (mcts_zero.rs, line 130)
AssertIterations(iters) == iters > 0

\* The counter gave the worker a game: it plays it, with a tree build per
\* move; the thread panics in the first build when its assertion fails.
WPlay(w) ==
    /\ UNCHANGED <<zvars, mvars, rvars, sel, lvars>>
    /\ w \in Workers
    /\ wpc[w] = "returned"
    /\ picked[w] > 0
    /\ wpc' = [wpc EXCEPT ![w] = IF AssertIterations(gen_iterations)
                                  THEN "play" ELSE "panicked"]
    /\ UNCHANGED <<left, left0, holder, max_count, picked, seen_left,
                   returned>>

\* The game is over: the worker sends its Simulation and starts over.
WSend(w) ==
    /\ UNCHANGED <<zvars, mvars, sel, lvars>>
    /\ w \in Workers
    /\ wpc[w] = "play"
    /\ channel' = Append(channel, w)
    /\ sent' = sent + 1
    /\ wpc' = [wpc EXCEPT ![w] = "start"]
    /\ UNCHANGED <<left, left0, holder, max_count, picked, seen_left,
                   returned, gen_iterations, output_file, game_count, run_pc,
                   received>>

\* The counter gave the worker 0: its thread ends.
WExit(w) ==
    /\ UNCHANGED <<zvars, mvars, rvars, sel, lvars>>
    /\ w \in Workers
    /\ wpc[w] = "returned"
    /\ picked[w] = 0
    /\ wpc' = [wpc EXCEPT ![w] = "exited"]
    /\ UNCHANGED <<left, left0, holder, max_count, picked, seen_left,
                   returned>>

\* The evaluator fails while the worker plays its game: the thread ends
\* without a Simulation.  At most one worker fails.
WCrash(w) ==
    /\ UNCHANGED <<zvars, mvars, rvars, sel, lvars>>
    /\ w \in Workers
    /\ wpc[w] = "play"
    /\ \A v \in Workers : wpc[v] /= "crashed"
    /\ wpc' = [wpc EXCEPT ![w] = "crashed"]
    /\ UNCHANGED <<left, left0, holder, max_count, picked, seen_left,
                   returned>>

\* Line 133, collect: a Simulation is received.
RReceive ==
    /\ UNCHANGED <<zvars, mvars, cvars, sel, lvars>>
    /\ run_pc = "collect"
    /\ received < game_count
    /\ channel /= <<>>
    /\ channel' = Tail(channel)
    /\ received' = received + 1
    /\ UNCHANGED <<gen_iterations, output_file, game_count, run_pc, sent>>

\* Line 133, collect returns: game_count Simulations have been received, or
\* the channel is disconnected.
RCollected ==
    /\ UNCHANGED <<zvars, mvars, cvars, sel, lvars>>
    /\ run_pc = "collect"
    /\ received >= game_count \/ Disconnected
    /\ run_pc' = "join"
    /\ UNCHANGED <<gen_iterations, output_file, game_count, channel, received,
                   sent>>

\* Lines 135-138: the scope joins the threads; its unwrap panics when one of
\* them panicked.
RJoin ==
    /\ UNCHANGED <<zvars, mvars, cvars, sel, lvars>>
    /\ run_pc = "join"
    /\ \A w \in Workers : wpc[w] \in {"exited", "crashed", "panicked"}
    /\ run_pc' = IF \E w \in Workers : wpc[w] \in {"crashed", "panicked"}
                 THEN "panic" ELSE "returned"
    /\ UNCHANGED <<gen_iterations, output_file, game_count, channel, received,
                   sent>>

\* Settings.game_count; nothing else exists before run is called.
RInit ==
    /\ game_count \in 0..MaxGames
    /\ channel = <<>> /\ run_pc = "call" /\ received = 0 /\ sent = 0
    /\ gen_iterations = 1 /\ output_file = FALSE

\* Settings of any iterations, 0 among them.
RInitAnyIterations ==
    /\ game_count \in 0..MaxGames
    /\ channel = <<>> /\ run_pc = "call" /\ received = 0 /\ sent = 0
    /\ gen_iterations \in 0..MaxIter /\ output_file = FALSE

\* The steps of worker w in Settings::run.
Worker(w) ==
    \/ WClaim(w) \/ CLock(w) \/ CMin(w) \/ CSub(w) \/ CReturn(w)
    \/ WPlay(w) \/ WSend(w) \/ WExit(w)

\* The steps of the thread of run.
Run == ROpen \/ RSpawn \/ RReceive \/ RCollected \/ RJoin

RNext ==
    \/ ROpen \/ RSpawn \/ RReceive \/ RCollected \/ RJoin
    \/ \E w \in 1..NumWorkers : WClaim(w)
    \/ \E w \in 1..NumWorkers : CLock(w)
    \/ \E w \in 1..NumWorkers : CMin(w)
    \/ \E w \in 1..NumWorkers : CSub(w)
    \/ \E w \in 1..NumWorkers : CReturn(w)
    \/ \E w \in 1..NumWorkers : WPlay(w)
    \/ \E w \in 1..NumWorkers : WSend(w)
    \/ \E w \in 1..NumWorkers : WExit(w)

RCrashNext ==
    \/ RNext
    \/ \E w \in 1..NumWorkers : WCrash(w)

\* The operating system schedules every thread that can take a step.
RFairness ==
    /\ WF_vars(Run)
    /\ \A w \in 1..NumWorkers : WF_vars(Worker(w))

----------------------------------------------------------------------------
(* MoveSelector::select (src/rust/src/selfplay/mod.rs, lines 141-152).     *)
(* Indices are the source's, from 0; policy weights are whole numbers.     *)

\* inf_temp_move_count is drawn from 0..MaxTemp
MaxTemp == 2
\* move_count is drawn from 0..MaxMoveCount
MaxMoveCount == 3
\* a policy has 1..MaxPolicyLen entries
MaxPolicyLen == 3
\* a policy entry is drawn from 0..MaxWeight
MaxWeight == 2

\* The policies select is called with: one weight or more is positive.
SelectPolicies ==
    {p \in UNION {[1..n -> 0..MaxWeight] : n \in 1..MaxPolicyLen} :
        \E k \in DOMAIN p : p[k] > 0}

\* itertools position_max over OrderedFloat: the position, from 0, of the
\* maximum; max_by keeps the later of two equal elements.
position_max(policy) ==
    LET r == max_by_key([k \in 1..Len(policy) |-> k - 1],
                        [k \in 1..Len(policy) |-> F32(policy[k])])
    IN  r

RECURSIVE SumWeights(_, _)
SumWeights(policy, n) ==
    IF n = 0 THEN 0 ELSE policy[n] + SumWeights(policy, n - 1)

\* WeightedIndex::sample with the draw u of 0..(total - 1): the first index,
\* from 0, whose cumulative weight is above u.
WeightedIndexSample(policy, u) ==
    (CHOOSE k \in 1..Len(policy) :
        /\ SumWeights(policy, k) > u
        /\ \A j \in 1..(k - 1) : SumWeights(policy, j) <= u) - 1

\* The test of line 143
PicksBest(move_count, inf_temp_move_count) == move_count > inf_temp_move_count

\* MoveSelector::select
select ==
    /\ UNCHANGED <<zvars, mvars, cvars, rvars, lvars>>
    /\ sel /= None
    /\ Unwrap(sel).pc = "call"
    /\ LET s == Unwrap(sel)
       IN  IF PicksBest(s.move_count, s.inf_temp_move_count)
           THEN sel' = Some([s EXCEPT !.pc = "done", !.branch = "best",
                                      !.result = Unwrap(position_max(s.policy))])
           ELSE \E u \in 0..(SumWeights(s.policy, Len(s.policy)) - 1) :
                   sel' = Some([s EXCEPT !.pc = "done", !.branch = "random",
                                         !.result =
                                             WeightedIndexSample(s.policy, u)])

\* A MoveSelector and the arguments of one call of select.
SInit ==
    \E t \in 0..MaxTemp, m \in 0..MaxMoveCount, p \in SelectPolicies :
       sel = Some([inf_temp_move_count |-> t, move_count |-> m, policy |-> p,
                   pc |-> "call", branch |-> "none", result |-> 0])

SNext == select

----------------------------------------------------------------------------
(* The compact string of a board, src/src/board.rs lines 403-450: a        *)
(* sequence of 81 characters, one per coord.                               *)

\* the boards to serialise are up to MaxPlays plays away from a position of
\* one of the lines above
MaxPlays == 1

\* get_player
get_player(grid, i) ==
    IF has_bit(grid, i) THEN "Player"
    ELSE IF has_bit(grid, i + 9) THEN "Enemy"
    ELSE Neutral

\* Board::tile
tile(b, coord) == get_player(b.grids[om(coord)], os(coord))

\* board_to_compact_string that writes the last move like every other tile
board_to_compact_stringNoLast(b) ==
    [k \in 1..81 |->
        CASE tile(b, k - 1) = "Player" -> "X"
          [] tile(b, k - 1) = "Enemy" -> "O"
          [] OTHER -> " "]

\* board_to_compact_string
board_to_compact_string(b) ==
    [k \in 1..81 |->
        LET coord == k - 1
            last == Some(coord) = b.last_move
            t == tile(b, coord)
        IN  CASE ~last /\ t = "Player" -> "X"
              [] last /\ t = "Player" -> "x"
              [] ~last /\ t = "Enemy" -> "O"
              [] last /\ t = "Enemy" -> "o"
              [] OTHER -> " "]

\* The match of board_from_compact_string: the player and the last flag of
\* a character.
CharPlayer(c) ==
    CASE c \in {"X", "x"} -> "Player"
      [] c \in {"O", "o"} -> "Enemy"
      [] OTHER -> Neutral
CharLast(c) == c \in {"x", "o"}

\* The for loop of board_from_compact_string over the characters o..end-1:
\* the board and the last move seen.
RECURSIVE ParseChars(_, _, _, _)
ParseChars(s, o, end, acc) ==
    IF o >= end THEN acc
    ELSE LET c == s[o + 1]
             player == CharPlayer(c)
             last2 == IF CharLast(c)
                      THEN Some([player |-> player, coord |-> o])
                      ELSE acc.last_move
             b2 == IF player /= Neutral
                   THEN set_tile_and_update(acc.board, player, o)
                   ELSE acc.board
         IN  ParseChars(s, o + 1, end, [board |-> b2, last_move |-> last2])

\* The same loop, the characters taken nine at a time (macro_open is a bit
\* set and never negative: reading it has the board computed before the
\* next nine characters).
RECURSIVE ParseFrom(_, _, _)
ParseFrom(s, o, acc) ==
    IF o >= Len(s) \/ acc.board.macro_open < 0 THEN acc
    ELSE ParseFrom(s, o + 9, ParseChars(s, o, o + 9, acc))

\* board_from_compact_string
board_from_compact_string(s) ==
    LET r == ParseFrom(s, 0, [board |-> BoardNew, last_move |-> None])
    IN  IF r.last_move = None THEN r.board
        ELSE LET lm == Unwrap(r.last_move)
             IN  [set_tile_and_update(r.board, lm.player, lm.coord)
                    EXCEPT !.last_move = Some(lm.coord),
                           !.next_player = other(lm.player)]

\* The positions of the lines: every prefix of their plays.
Lines == {Line1, Line2, Line3, Line4}
LinePositions ==
    UNION {{PlayAll(BoardNew, SubSeq(l, 1, n)) : n \in 0..Len(l)} :
              l \in Lines}

\* Board::play of any available move.
KPlay ==
    /\ UNCHANGED <<zvars, mvars, cvars, rvars, sel, gvars, avars, bvars,
                   wvars>>
    /\ k_string = None
    /\ k_plays < MaxPlays
    /\ ~is_done(k_board)
    /\ \E coord \in 0..80 :
          /\ is_available_move(k_board, coord)
          /\ k_board' = play(k_board, coord)
    /\ k_plays' = k_plays + 1
    /\ UNCHANGED <<k_string, k_parsed>>

KToString ==
    /\ UNCHANGED <<zvars, mvars, cvars, rvars, sel, gvars, avars, bvars,
                   wvars>>
    /\ k_string = None
    /\ k_string' = Some(board_to_compact_string(k_board))
    /\ UNCHANGED <<k_board, k_plays, k_parsed>>

KFromString ==
    /\ UNCHANGED <<zvars, mvars, cvars, rvars, sel, gvars, avars, bvars,
                   wvars>>
    /\ k_string /= None
    /\ k_parsed = None
    /\ k_parsed' = Some(board_from_compact_string(Unwrap(k_string)))
    /\ UNCHANGED <<k_board, k_plays, k_string>>

KInit ==
    /\ k_board \in LinePositions
    /\ k_plays = 0 /\ k_string = None /\ k_parsed = None

KNext == KPlay \/ KToString \/ KFromString

KIdle ==
    k_board = BoardNew /\ k_plays = 0 /\ k_string = None /\ k_parsed = None

----------------------------------------------------------------------------
(* Outcomes and value targets, src/src/wdl.rs. An Outcome is WonBy(player) *)
(* or Draw, an OutcomeWDL is "Win", "Draw" or "Loss"; the players of an    *)
(* Outcome are A and B.                                                    *)

\* a Simulation keeps at most MaxPositions positions
MaxPositions == 4

PlayersAB == {"A", "B"}
\* Player::other of the players A and B
PlayerOther(p) == IF p = "A" THEN "B" ELSE "A"

WonBy(p) == [kind |-> "WonBy", player |-> p]
Draw == [kind |-> "Draw", player |-> "-"]
Outcomes == {WonBy(p) : p \in PlayersAB} \cup {Draw}

\* OutcomeWDL::sign that has no -1
signNoLoss(w) == IF w = "Win" THEN 1 ELSE 0

\* OutcomeWDL::sign
sign(w) == CASE w = "Win" -> 1 [] w = "Draw" -> 0 [] w = "Loss" -> -1

\* POV for Outcome
pov(outcome, p) ==
    IF outcome.kind = "WonBy"
    THEN (IF outcome.player = p THEN "Win" ELSE "Loss")
    ELSE "Draw"

\* Flip for OutcomeWDL
flip(w) == CASE w = "Win" -> "Loss" [] w = "Draw" -> "Draw" [] w = "Loss" -> "Win"

\* The value target of the next saved position of a finished game: the
\* outcome from the side to move there.
GValueTarget ==
    /\ UNCHANGED <<zvars, mvars, cvars, rvars, sel, kvars, avars, bvars,
                   wvars>>
    /\ Len(g_targets) < Len(g_players)
    /\ g_targets' = Append(g_targets,
                           sign(pov(g_outcome, g_players[Len(g_targets) + 1])))
    /\ UNCHANGED <<g_outcome, g_players>>

\* A finished game: its outcome and the sides to move of its positions.
GInit ==
    /\ g_outcome \in Outcomes
    /\ g_players \in UNION {[1..n -> PlayersAB] : n \in 1..MaxPositions}
    /\ g_targets = <<>>

GNext == GValueTarget

----------------------------------------------------------------------------
(* AtaxxBoard (src/src/games/ataxx/board.rs).  A Coord is 7 * y + x on the  *)
(* 7 x 7 board and Tiles is a set of Coords.  A Move is a record: Pass,     *)
(* Copy {to} or Jump {from, to}; the fields a kind does not have are -1.    *)

MaxAtaxxPlays == 1

AtaxxSize == 7
MAX_MOVES_SINCE_LAST_COPY == 100

\* Coord::all
CoordAll == 0 .. (AtaxxSize * AtaxxSize - 1)

\* Coord::distance: the larger of the distances along x and along y
distance(a, b) ==
    LET ax == a % AtaxxSize
        ay == a \div AtaxxSize
        bx == b % AtaxxSize
        by == b \div AtaxxSize
        dx == IF ax > bx THEN ax - bx ELSE bx - ax
        dy == IF ay > by THEN ay - by ELSE by - ay
    IN  IF dx > dy THEN dx ELSE dy

\* The tiles at a distance of 1 and of 2 from each tile.
CopyNeighbours == [t \in CoordAll |-> {c \in CoordAll : distance(t, c) = 1}]
JumpNeighbours == [t \in CoordAll |-> {c \in CoordAll : distance(t, c) = 2}]

\* Tiles::copy_targets: the tiles next to a tile of the set
copy_targets(tiles) == UNION {CopyNeighbours[t] : t \in tiles}

\* Tiles::jump_targets: the tiles two away from a tile of the set
jump_targets(tiles) == UNION {JumpNeighbours[t] : t \in tiles}

\* Tiles::CORNERS_A and Tiles::CORNERS_B: each player starts on two opposite
\* corners.
CORNERS_A == {AtaxxSize * (AtaxxSize - 1), AtaxxSize - 1}
CORNERS_B == {0, AtaxxSize * AtaxxSize - 1}

MovePass == [kind |-> "Pass", from |-> -1, to |-> -1]
MoveCopy(to) == [kind |-> "Copy", from |-> -1, to |-> to]
MoveJump(from, to) == [kind |-> "Jump", from |-> from, to |-> to]

\* AtaxxBoard::default
AtaxxDefault ==
    [tiles_a |-> CORNERS_A, tiles_b |-> CORNERS_B, gaps |-> {},
     moves_since_last_copy |-> 0, next_player |-> "A", outcome |-> None]

\* AtaxxBoard::free_tiles
free_tiles(b) == CoordAll \ (b.tiles_a \cup b.tiles_b \cup b.gaps)

\* AtaxxBoard::must_pass
must_pass(b, tiles) ==
    LET possible_targets == copy_targets(tiles) \cup jump_targets(tiles)
    IN  possible_targets \cap free_tiles(b) = {}

\* AtaxxBoard::tiles_pov
tiles_pov(b) ==
    IF b.next_player = "A" THEN <<b.tiles_a, b.tiles_b>>
    ELSE <<b.tiles_b, b.tiles_a>>

\* AtaxxBoard::update_outcome without the branch for two players who both
\* have to pass.
update_outcomeNoBothPass(b) ==
    LET a_empty == b.tiles_a = {}
        b_empty == b.tiles_b = {}
        outcome ==
            IF b.moves_since_last_copy >= MAX_MOVES_SINCE_LAST_COPY
               \/ (a_empty /\ b_empty) THEN Some(Draw)
            ELSE IF a_empty THEN Some(WonBy("B"))
            ELSE IF b_empty THEN Some(WonBy("A"))
            ELSE None
    IN  [b EXCEPT !.outcome = outcome]

\* AtaxxBoard::update_outcome
update_outcome(b) ==
    LET a_empty == b.tiles_a = {}
        b_empty == b.tiles_b = {}
        a_pass == must_pass(b, b.tiles_a)
        b_pass == must_pass(b, b.tiles_b)
        count_a == Cardinality(b.tiles_a)
        count_b == Cardinality(b.tiles_b)
        outcome ==
            IF b.moves_since_last_copy >= MAX_MOVES_SINCE_LAST_COPY
               \/ (a_empty /\ b_empty) THEN Some(Draw)
            ELSE IF a_empty THEN Some(WonBy("B"))
            ELSE IF b_empty THEN Some(WonBy("A"))
            ELSE IF a_pass /\ b_pass THEN
                CASE count_a < count_b -> Some(WonBy("B"))
                  [] count_a = count_b -> Some(Draw)
                  [] count_a > count_b -> Some(WonBy("A"))
            ELSE None
    IN  [b EXCEPT !.outcome = outcome]

\* Board::is_done of an AtaxxBoard
AtaxxIsDone(b) == b.outcome /= None

\* AtaxxBoard::is_available_move, for a board that is not done
AtaxxIsAvailableMove(b, mv) ==
    LET next_tiles == tiles_pov(b)[1]
    IN  CASE mv.kind = "Pass" -> must_pass(b, next_tiles)
          [] mv.kind = "Copy" ->
                mv.to \in (free_tiles(b) \cap copy_targets(next_tiles))
          [] mv.kind = "Jump" ->
                /\ mv.to \in free_tiles(b)
                /\ mv.from \in next_tiles
                /\ distance(mv.from, mv.to) = 2

\* MoveIterator with jumps from every tile two away from the target, the
\* player's or not.
AtaxxAvailableMovesAnyOrigin(b) ==
    LET next_tiles == tiles_pov(b)[1]
        free == free_tiles(b)
    IN  IF must_pass(b, next_tiles) THEN {MovePass}
        ELSE {MoveCopy(to) : to \in free \cap copy_targets(next_tiles)}
             \cup UNION {{MoveJump(from, to) : from \in jump_targets({to})} :
                         to \in free \cap jump_targets(next_tiles)}

\* MoveIterator (available_moves): Pass alone when the player has to pass,
\* otherwise the copy moves and the jump moves.
AtaxxAvailableMoves(b) ==
    LET next_tiles == tiles_pov(b)[1]
        free == free_tiles(b)
    IN  IF must_pass(b, next_tiles) THEN {MovePass}
        ELSE {MoveCopy(to) : to \in free \cap copy_targets(next_tiles)}
             \cup UNION {{MoveJump(from, to) :
                            from \in next_tiles \cap jump_targets({to})} :
                         to \in free \cap jump_targets(next_tiles)}

\* The iteration of Tiles: by rising Coord.
CoordSeq == [i \in 1..(AtaxxSize * AtaxxSize) |-> i - 1]
TilesIter(tiles) == SelectSeq(CoordSeq, LAMBDA c : c \in tiles)

\* Tiles::get_nth
TilesNth(tiles, n) == TilesIter(tiles)[n + 1]

\* jump_count of random_available_move (lines 162-166): the sum, over the
\* jump targets, of the player's tiles two away.
RECURSIVE JumpCount(_, _)
JumpCount(next_tiles, targets) ==
    IF targets = <<>> THEN 0
    ELSE Cardinality(next_tiles \cap jump_targets({Head(targets)}))
         + JumpCount(next_tiles, Tail(targets))

\* The range of rng.gen_range in random_available_move (line 168); no
\* number is drawn when the player has to pass.
RandomRange(b) ==
    LET next_tiles == tiles_pov(b)[1]
        free == free_tiles(b)
        copy_count == Cardinality(free \cap copy_targets(next_tiles))
        jump_count ==
            JumpCount(next_tiles, TilesIter(free \cap jump_targets(next_tiles)))
    IN  IF must_pass(b, next_tiles) THEN {0}
        ELSE 0 .. (copy_count + jump_count - 1)

\* What random_available_move gives where the code says unreachable!().
MoveUnreachable == [kind |-> "unreachable", from |-> -1, to |-> -1]

\* The loop of random_available_move over the jump targets (lines 175-183).
RECURSIVE RandomJump(_, _, _)
RandomJump(next_tiles, targets, rest) ==
    IF targets = <<>> THEN MoveUnreachable
    ELSE LET to == Head(targets)
             from == next_tiles \cap jump_targets({to})
             count == Cardinality(from)
         IN  IF rest < count THEN MoveJump(TilesNth(from, rest), to)
             ELSE RandomJump(next_tiles, Tail(targets), rest - count)

\* AtaxxBoard::random_available_move, for the index the generator gave
AtaxxRandomAvailableMove(b, rng_index) ==
    LET next_tiles == tiles_pov(b)[1]
        free == free_tiles(b)
        copy_targets_free == free \cap copy_targets(next_tiles)
        jump_targets_free == free \cap jump_targets(next_tiles)
        copy_count == Cardinality(copy_targets_free)
    IN  IF must_pass(b, next_tiles) THEN MovePass
        ELSE IF rng_index < copy_count THEN
            MoveCopy(TilesNth(copy_targets_free, rng_index))
        ELSE RandomJump(next_tiles, TilesIter(jump_targets_free),
                        rng_index - copy_count)

\* The moves of MoveIterator in the order it emits them (lines 300-335):
\* Pass alone, or the copies by target and then the jumps by target and by
\* origin.
RECURSIVE JumpsInOrder(_, _)
JumpsInOrder(next_tiles, targets) ==
    IF targets = <<>> THEN <<>>
    ELSE LET to == Head(targets)
             from == TilesIter(next_tiles \cap jump_targets({to}))
         IN  [i \in 1..Len(from) |-> MoveJump(from[i], to)]
             \o JumpsInOrder(next_tiles, Tail(targets))

AtaxxMovesInOrder(b) ==
    LET next_tiles == tiles_pov(b)[1]
        free == free_tiles(b)
        copies == TilesIter(free \cap copy_targets(next_tiles))
    IN  IF must_pass(b, next_tiles) THEN <<MovePass>>
        ELSE [i \in 1..Len(copies) |-> MoveCopy(copies[i])]
             \o JumpsInOrder(next_tiles,
                             TilesIter(free \cap jump_targets(next_tiles)))

\* AtaxxBoard::play without line 215: a jump does not count.
AtaxxPlayNoCount(b, mv) ==
    IF mv.kind = "Pass" THEN
        [b EXCEPT !.next_player = PlayerOther(b.next_player)]
    ELSE
        LET a_moves == b.next_player = "A"
            next_tiles == tiles_pov(b)[1]
            other_tiles == tiles_pov(b)[2]
            lifted == IF mv.kind = "Jump" THEN next_tiles \ {mv.from}
                      ELSE next_tiles
            converted == other_tiles \cap copy_targets({mv.to})
            next_after == lifted \cup {mv.to} \cup converted
            other_after == other_tiles \ converted
            moved == [b EXCEPT
                        !.tiles_a = IF a_moves THEN next_after ELSE other_after,
                        !.tiles_b = IF a_moves THEN other_after ELSE next_after,
                        !.moves_since_last_copy =
                            IF mv.kind = "Copy" THEN 0 ELSE @]
        IN  [update_outcome(moved)
                EXCEPT !.next_player = PlayerOther(b.next_player)]

\* AtaxxBoard::play, for an available move
AtaxxPlay(b, mv) ==
    IF mv.kind = "Pass" THEN
        [b EXCEPT !.next_player = PlayerOther(b.next_player)]
    ELSE
        LET a_moves == b.next_player = "A"
            next_tiles == tiles_pov(b)[1]
            other_tiles == tiles_pov(b)[2]
            lifted == IF mv.kind = "Jump" THEN next_tiles \ {mv.from}
                      ELSE next_tiles
            converted == other_tiles \cap copy_targets({mv.to})
            next_after == lifted \cup {mv.to} \cup converted
            other_after == other_tiles \ converted
            moved == [b EXCEPT
                        !.tiles_a = IF a_moves THEN next_after ELSE other_after,
                        !.tiles_b = IF a_moves THEN other_after ELSE next_after,
                        !.moves_since_last_copy =
                            IF mv.kind = "Copy" THEN 0 ELSE @ + 1]
        IN  [update_outcome(moved)
                EXCEPT !.next_player = PlayerOther(b.next_player)]

\* The board after the moves of a game, played in order from b.
RECURSIVE AtaxxPlayAll(_, _)
AtaxxPlayAll(b, moves) ==
    IF moves = <<>> \/ AtaxxIsDone(b)
       \/ ~AtaxxIsAvailableMove(b, Head(moves)) THEN b
    ELSE AtaxxPlayAll(AtaxxPlay(b, Head(moves)), Tail(moves))

\* A game from the default start: 44 copy moves, a Pass of B, and the copy
\* of A that fills the board.
AtaxxLine ==
    [i \in 1..46 |->
        IF i = 45 THEN MovePass
        ELSE MoveCopy(<<43, 41, 12, 33, 35, 39, 44, 27, 4, 32, 19, 31, 38, 1,
                        30, 26, 29, 9, 46, 40, 11, 18, 5, 3, 28, 8, 21, 17,
                        14, 16, 45, 25, 47, 7, 23, 10, 36, 22, 20, 24, 13,
                        34, 37, 15, 0, 2>>[i])]

\* A second game from the default start, with jump moves: after 31 moves B
\* is shut in with 18 tiles still free, and passes after every move of A
\* until A has filled the board.
AtaxxLine2 ==
    << MoveCopy(35), MoveJump(0, 16), MoveCopy(29), MoveCopy(23),
       MoveCopy(28), MoveCopy(15), MoveCopy(22), MoveCopy(41),
       MoveCopy(7), MoveCopy(40), MoveCopy(21), MoveCopy(39),
       MoveCopy(12), MoveJump(39, 27), MoveCopy(5), MoveCopy(20),
       MoveCopy(36), MoveCopy(19), MoveCopy(17), MoveCopy(26),
       MoveCopy(10), MoveJump(20, 32), MoveCopy(18), MoveCopy(34),
       MoveCopy(25), MoveCopy(46), MoveCopy(33), MoveCopy(45),
       MoveJump(42, 30), MoveCopy(47), MoveCopy(39), MovePass,
       MoveCopy(43), MovePass, MoveCopy(44), MovePass, MoveJump(29, 38),
       MovePass, MoveCopy(8), MovePass, MoveCopy(13), MovePass,
       MoveJump(13, 4), MovePass, MoveCopy(11), MovePass, MoveCopy(0),
       MovePass, MoveCopy(1), MovePass, MoveCopy(29), MovePass,
       MoveCopy(42), MovePass, MoveCopy(3), MovePass, MoveJump(7, 2),
       MovePass, MoveCopy(14), MovePass, MoveCopy(24), MovePass,
       MoveJump(21, 37), MovePass, MoveCopy(9), MovePass, MoveCopy(31),
       MovePass, MoveCopy(13), MovePass, MoveJump(35, 21), MovePass,
       MoveCopy(7), MovePass, MoveCopy(20), MovePass, MoveCopy(35) >>

AtaxxLines == {AtaxxLine, AtaxxLine2}

\* A third game from the default start, of jumps only: A jumps to and fro
\* between 6 and 20 and then brings its tiles to 5 and 6, B jumps to and fro
\* between 0 and 2 and then brings a tile to 27; the hundredth move is the
\* jump of B to 13, which takes the last two tiles of A.
AtaxxLine3 ==
    [i \in 1..100 |->
        LET k == (i + 1) \div 2
        IN  IF i % 2 = 1 THEN
                IF k <= 46 THEN
                    IF k % 2 = 1 THEN MoveJump(6, 20) ELSE MoveJump(20, 6)
                ELSE <<MoveJump(42, 28), MoveJump(28, 30), MoveJump(30, 18),
                       MoveJump(18, 5)>>[k - 46]
            ELSE
                IF k <= 47 THEN
                    IF k % 2 = 1 THEN MoveJump(0, 2) ELSE MoveJump(2, 0)
                ELSE <<MoveJump(48, 32), MoveJump(32, 27),
                       MoveJump(27, 13)>>[k - 47]]

\* A fourth game from the default start, of eight jumps: the last one, of
\* B to 13, takes the last two tiles of A.
AtaxxLine4 ==
    << MoveJump(42, 28), MoveJump(0, 2), MoveJump(28, 30), MoveJump(48,
       32), MoveJump(30, 18), MoveJump(32, 27), MoveJump(18, 5),
       MoveJump(27, 13) >>

\* A fifth game from the default start: 40 copies, then 23 times the same
\* four jumps to and fro, then seven jumps, 99 jumps in a row in all; the
\* player to move, B, can then only jump.
AtaxxLine5 ==
    << MoveCopy(13), MoveCopy(41), MoveCopy(35), MoveCopy(8),
       MoveCopy(28), MoveCopy(2), MoveCopy(21), MoveCopy(3), MoveCopy(12),
       MoveCopy(1), MoveCopy(15), MoveCopy(10), MoveCopy(5), MoveCopy(7),
       MoveCopy(29), MoveCopy(33), MoveCopy(18), MoveCopy(23),
       MoveCopy(16), MoveCopy(22), MoveCopy(9), MoveCopy(17),
       MoveCopy(36), MoveCopy(11), MoveCopy(14), MoveCopy(30),
       MoveCopy(43), MoveCopy(32), MoveCopy(19), MoveCopy(25),
       MoveCopy(37), MoveCopy(34), MoveCopy(20), MoveCopy(40),
       MoveCopy(4), MoveCopy(39), MoveCopy(38), MoveCopy(27),
       MoveCopy(47), MoveCopy(24) >>
    \o [i \in 1..92 |->
          << MoveJump(35, 44), MoveJump(24, 26), MoveJump(44, 35),
             MoveJump(26, 24) >>[((i - 1) % 4) + 1]]
    \o
    << MoveJump(48, 46), MoveJump(32, 45), MoveJump(13, 26), MoveJump(17,
       31), MoveJump(4, 17), MoveJump(39, 44), MoveJump(27, 39) >>

\* The Pass moves at the end of a sequence of moves.
RECURSIVE TrailingPasses(_)
TrailingPasses(moves) ==
    IF moves = <<>> \/ moves[Len(moves)].kind /= "Pass" THEN 0
    ELSE 1 + TrailingPasses(SubSeq(moves, 1, Len(moves) - 1))

\* The position after n moves of a game, with the move and the Pass moves
\* in a row that led to it.  The positions taken are all those of the first
\* two games and of the fourth, and the last ones of the third and the fifth.
AtaxxPositionAfter(l, n) ==
    [board |-> AtaxxPlayAll(AtaxxDefault, SubSeq(l, 1, n)),
     passes |-> TrailingPasses(SubSeq(l, 1, n)),
     last |-> IF n = 0 THEN None ELSE Some(l[n])]

AtaxxLinePositions ==
    UNION {{AtaxxPositionAfter(l, n) : n \in 0..Len(l)} : l \in AtaxxLines}
    \cup {AtaxxPositionAfter(AtaxxLine3, n) :
            n \in (Len(AtaxxLine3) - 8)..Len(AtaxxLine3)}
    \cup {AtaxxPositionAfter(AtaxxLine4, n) : n \in 0..Len(AtaxxLine4)}
    \cup {AtaxxPositionAfter(AtaxxLine5, n) :
            n \in (Len(AtaxxLine5) - 2)..Len(AtaxxLine5)}

----------------------------------------------------------------------------
(* is_double_forced_draw (src/src/ai/solver.rs) on an AtaxxBoard.  An       *)
(* Option<bool> is None, Some(TRUE) or Some(FALSE).                         *)

\* is_double_forced_draw whose loop goes on after a child with an unknown
\* result, as after a child that is a forced draw.
RECURSIVE is_double_forced_drawSkipUnknown(_, _)
is_double_forced_drawSkipUnknown(b, depth) ==
    IF b.outcome /= None THEN Some(Unwrap(b.outcome) = Draw)
    ELSE IF depth = 0 THEN None
    ELSE LET mvs == AtaxxMovesInOrder(b)
             results == [i \in 1..Len(mvs) |->
                 is_double_forced_drawSkipUnknown(AtaxxPlay(b, mvs[i]),
                                                  depth - 1)]
         IN  IF \E i \in 1..Len(mvs) : results[i] = Some(FALSE)
             THEN Some(FALSE)
             ELSE Some(TRUE)

\* is_double_forced_draw, lines 42-66; FindMapDraw is its find_map over the
\* moves not yet tried (lines 49-57), which stops at the first move whose
\* closure returns Some.
RECURSIVE is_double_forced_draw(_, _), FindMapDraw(_, _, _)
is_double_forced_draw(b, depth) ==
    IF b.outcome /= None THEN Some(Unwrap(b.outcome) = Draw)
    ELSE IF depth = 0 THEN None
    ELSE LET result == FindMapDraw(b, AtaxxMovesInOrder(b), depth)
         IN  CASE result = Some(TRUE) -> None
               [] result = Some(FALSE) -> Some(FALSE)
               [] result = None -> Some(TRUE)

FindMapDraw(b, mvs, depth) ==
    IF mvs = <<>> THEN None
    ELSE LET child == AtaxxPlay(b, Head(mvs))
             r == is_double_forced_draw(child, depth - 1)
         IN  CASE r = Some(TRUE) -> FindMapDraw(b, Tail(mvs), depth)
               [] r = Some(FALSE) -> Some(FALSE)
               [] r = None -> Some(TRUE)

\* One call of play on a board that is not done, with a move of
\* available_moves (line 191 asserts that the move is available).
APlay ==
    /\ UNCHANGED <<zvars, mvars, cvars, rvars, sel, gvars, kvars, bvars,
                   wvars>>
    /\ at_plays < MaxAtaxxPlays
    /\ ~AtaxxIsDone(at_board)
    /\ \E mv \in AtaxxAvailableMoves(at_board) :
          /\ AtaxxIsAvailableMove(at_board, mv)
          /\ at_board' = AtaxxPlay(at_board, mv)
          /\ at_passes' = IF mv.kind = "Pass" THEN at_passes + 1 ELSE 0
          /\ at_last' = Some(mv)
    /\ at_plays' = at_plays + 1
    /\ at_query' = None

\* One call of available_moves (line 267 asserts that the board is not done).
AAvailableMoves ==
    /\ UNCHANGED <<zvars, mvars, cvars, rvars, sel, gvars, kvars, bvars,
                   wvars>>
    /\ at_plays < MaxAtaxxPlays
    /\ ~AtaxxIsDone(at_board)
    /\ at_query' = Some([op |-> "available_moves",
                         moves |-> AtaxxAvailableMoves(at_board),
                         mv |-> MovePass, depth |-> 0, result |-> None])
    /\ at_plays' = at_plays + 1
    /\ UNCHANGED <<at_board, at_passes, at_last>>

\* One call of random_available_move (line 150 asserts that the board is
\* not done); the random generator gives any index of the range.
ARandomAvailableMove ==
    /\ UNCHANGED <<zvars, mvars, cvars, rvars, sel, gvars, kvars, bvars,
                   wvars>>
    /\ at_plays < MaxAtaxxPlays
    /\ ~AtaxxIsDone(at_board)
    /\ \E rng_index \in RandomRange(at_board) :
          at_query' = Some([op |-> "random_available_move", moves |-> {},
                            mv |-> AtaxxRandomAvailableMove(at_board, rng_index),
                            depth |-> 0, result |-> None])
    /\ at_plays' = at_plays + 1
    /\ UNCHANGED <<at_board, at_passes, at_last>>

\* One call of is_double_forced_draw(&at_board, depth); the plies it looks
\* ahead count as calls made on the board.
ASolve ==
    /\ UNCHANGED <<zvars, mvars, cvars, rvars, sel, gvars, kvars, bvars,
                   wvars>>
    /\ \E depth \in 0..MaxAtaxxPlays :
          /\ at_plays + depth <= MaxAtaxxPlays
          /\ at_query' = Some([op |-> "is_double_forced_draw", moves |-> {},
                               mv |-> MovePass, depth |-> depth,
                               result |-> is_double_forced_draw(at_board,
                                                                depth)])
    /\ UNCHANGED <<at_board, at_plays, at_passes, at_last>>

AInit ==
    /\ \E p \in AtaxxLinePositions :
          at_board = p.board /\ at_passes = p.passes /\ at_last = p.last
    /\ at_plays = 0
    /\ at_query = None

ANext == APlay

AMovesNext == APlay \/ AAvailableMoves \/ ARandomAvailableMove

ASolveNext == APlay \/ ASolve

AIdle ==
    /\ at_board = AtaxxDefault /\ at_plays = 0 /\ at_passes = 0
    /\ at_last = None /\ at_query = None


----------------------------------------------------------------------------
(* bot_game::run (src/src/util/bot_game.rs) with AtaxxBoard as the Board.   *)
(* The times are left out.  The closure of the parallel map keeps every     *)
(* variable of a game to itself and the reduction adds u32 counts, so the   *)
(* games are taken one after the other, by rising index.                    *)

MaxGamesPerSide == 1
MaxGamePlies == 2

\* The boards that start() returns here: late positions of the games above,
\* two with A to move and two with B to move.
BotGameStarts ==
    {AtaxxPositionAfter(AtaxxLine, 44).board,
     AtaxxPositionAfter(AtaxxLine, 45).board,
     AtaxxPositionAfter(AtaxxLine2, Len(AtaxxLine2) - 1).board,
     AtaxxPositionAfter(AtaxxLine5, Len(AtaxxLine5)).board}

\* ReductionResult::default and ReductionResult::add
ReductionDefault ==
    [wins_l |-> 0, wins_r |-> 0, move_count_l |-> 0, move_count_r |-> 0]
ReductionAdd(x, y) ==
    [wins_l |-> x.wins_l + y.wins_l, wins_r |-> x.wins_r + y.wins_r,
     move_count_l |-> x.move_count_l + y.move_count_l,
     move_count_r |-> x.move_count_r + y.move_count_r]

\* game_count, line 23
GameCount(args) ==
    IF args.both_sides THEN 2 * args.games_per_side ELSE args.games_per_side

\* flip, line 34
Flip(args, i) == IF args.both_sides THEN i % 2 = 1 ELSE FALSE

\* Line 43: whether bot_l selects the move of ply i.
LeftSelects(flip_game, i) == flip_game /= (i % 2 = 0)

\* Lines 65-69: the wins of one game.
GameWins(flip_game, outcome) ==
    LET win_a == IF outcome = WonBy("A") THEN 1 ELSE 0
        win_b == IF outcome = WonBy("B") THEN 1 ELSE 0
    IN  IF flip_game THEN [wins_l |-> win_b, wins_r |-> win_a]
        ELSE [wins_l |-> win_a, wins_r |-> win_b]

\* Lines 20-25: run is called; nothing is mapped yet.
BRun ==
    /\ UNCHANGED <<zvars, mvars, cvars, rvars, sel, gvars, kvars, avars,
                   wvars>>
    /\ bg_pc = "call"
    /\ bg_pc' = "map"
    /\ bg_next' = 0
    /\ bg_sum' = ReductionDefault
    /\ UNCHANGED <<bg_args, bg_game, bg_hist, bg_out>>

\* Lines 25-35: the closure starts on the next index.
BGameStart ==
    /\ UNCHANGED <<zvars, mvars, cvars, rvars, sel, gvars, kvars, avars,
                   wvars>>
    /\ bg_pc = "map"
    /\ bg_next < GameCount(bg_args)
    /\ bg_pc' = "game"
    /\ bg_game' = [i |-> bg_next, flip |-> Flip(bg_args, bg_next),
                   board |-> bg_args.start, ply |-> 0,
                   move_count_l |-> 0, move_count_r |-> 0,
                   first |-> "none", l_players |-> {}, r_players |-> {}]
    /\ UNCHANGED <<bg_args, bg_next, bg_sum, bg_hist, bg_out>>

\* Lines 37-55: one turn of the loop on a board that is not done; the bot
\* of the ply selects any available move and the board plays it.
BPly ==
    /\ UNCHANGED <<zvars, mvars, cvars, rvars, sel, gvars, kvars, avars,
                   wvars>>
    /\ bg_pc = "game"
    /\ ~AtaxxIsDone(bg_game.board)
    /\ bg_game.ply < MaxGamePlies
    /\ \E mv \in AtaxxAvailableMoves(bg_game.board) :
          LET by_left == LeftSelects(bg_game.flip, bg_game.ply)
              mover == bg_game.board.next_player
          IN  bg_game' = [bg_game EXCEPT
                  !.board = AtaxxPlay(@, mv),
                  !.ply = @ + 1,
                  !.move_count_l = IF by_left THEN @ + 1 ELSE @,
                  !.move_count_r = IF by_left THEN @ ELSE @ + 1,
                  !.first = IF bg_game.ply > 0 THEN @
                            ELSE IF by_left THEN "l" ELSE "r",
                  !.l_players = IF by_left THEN @ \cup {mover} ELSE @,
                  !.r_players = IF by_left THEN @ ELSE @ \cup {mover}]
    /\ UNCHANGED <<bg_pc, bg_args, bg_next, bg_sum, bg_hist, bg_out>>

\* Lines 38-40, 65-71 and the reduce of line 72: the board is done, the
\* wins of the game are added to the sum.
BGameEnd ==
    /\ UNCHANGED <<zvars, mvars, cvars, rvars, sel, gvars, kvars, avars,
                   wvars>>
    /\ bg_pc = "game"
    /\ AtaxxIsDone(bg_game.board)
    /\ LET outcome == Unwrap(bg_game.board.outcome)
           wins == GameWins(bg_game.flip, outcome)
       IN  /\ bg_sum' = ReductionAdd(bg_sum,
                  [wins_l |-> wins.wins_l, wins_r |-> wins.wins_r,
                   move_count_l |-> bg_game.move_count_l,
                   move_count_r |-> bg_game.move_count_r])
           /\ bg_hist' = Append(bg_hist,
                  [flip |-> bg_game.flip, first |-> bg_game.first,
                   l_players |-> bg_game.l_players,
                   r_players |-> bg_game.r_players, outcome |-> outcome])
    /\ bg_next' = bg_next + 1
    /\ bg_pc' = "map"
    /\ UNCHANGED <<bg_args, bg_game, bg_out>>

\* Lines 74-88: every index is mapped; the BotGameResult.
BReturn ==
    /\ UNCHANGED <<zvars, mvars, cvars, rvars, sel, gvars, kvars, avars,
                   wvars>>
    /\ bg_pc = "map"
    /\ bg_next = GameCount(bg_args)
    /\ bg_out' = Some([game_count |-> GameCount(bg_args),
                       wins_l |-> bg_sum.wins_l, wins_r |-> bg_sum.wins_r,
                       draws |-> GameCount(bg_args) - bg_sum.wins_l
                                    - bg_sum.wins_r])
    /\ bg_pc' = "done"
    /\ UNCHANGED <<bg_args, bg_next, bg_game, bg_sum, bg_hist>>

BNoGame ==
    [i |-> 0, flip |-> FALSE, board |-> AtaxxDefault, ply |-> 0,
     move_count_l |-> 0, move_count_r |-> 0, first |-> "none",
     l_players |-> {}, r_players |-> {}]

BInit ==
    /\ bg_pc = "call"
    /\ bg_args \in [start : BotGameStarts,
                    games_per_side : 0..MaxGamesPerSide,
                    both_sides : BOOLEAN]
    /\ bg_next = 0 /\ bg_game = BNoGame /\ bg_sum = ReductionDefault
    /\ bg_hist = <<>> /\ bg_out = None

BNext == BRun \/ BGameStart \/ BPly \/ BGameEnd \/ BReturn

BIdle ==
    /\ bg_pc = "idle"
    /\ bg_args = [start |-> AtaxxDefault, games_per_side |-> 0,
                  both_sides |-> FALSE]
    /\ bg_next = 0 /\ bg_game = BNoGame /\ bg_sum = ReductionDefault
    /\ bg_hist = <<>> /\ bg_out = None

----------------------------------------------------------------------------
(* is_win_grid (src/src/board.rs) called on its own.                        *)

\* grid is drawn from the values of MaxGridBits bits
MaxGridBits == 13

\* The call returns.
WIsWinGrid ==
    /\ UNCHANGED <<zvars, mvars, cvars, rvars, sel, gvars, kvars, avars,
                   bvars>>
    /\ wg_result = None
    /\ wg_result' = Some(is_win_grid(wg_grid))
    /\ UNCHANGED wg_grid

WInit == wg_grid \in 0..(Pow2(MaxGridBits) - 1) /\ wg_result = None

WNext == WIsWinGrid

WIdle == wg_grid = 0 /\ wg_result = None

GIdle == g_outcome = Draw /\ g_players = <<>> /\ g_targets = <<>>
LIdle == GIdle /\ KIdle /\ AIdle /\ BIdle /\ WIdle

----------------------------------------------------------------------------
(* The components at rest: a specification runs one of them.               *)

MIdle ==
    /\ mpc = "idle" /\ m_board = BoardNew /\ m_iterations = 0
    /\ batch_eval = FALSE /\ m_tree = <<>> /\ eval_queue = <<>>
    /\ m_curr_node = 0 /\ m_curr_board = BoardNew /\ m_done_iters = 0
    /\ m_result = None /\ ref_tree = <<>> /\ batch_cap = BatchCap

CIdle ==
    /\ left = 0 /\ left0 = 0 /\ holder = None /\ wpc = <<>> /\ max_count = <<>>
    /\ picked = <<>> /\ seen_left = <<>> /\ returned = <<>>

RIdle ==
    /\ game_count = 0 /\ channel = <<>> /\ run_pc = "idle" /\ received = 0
    /\ sent = 0 /\ gen_iterations = 0 /\ output_file = FALSE

SIdle == sel = None

\* mcts_zero_build_tree on every input of the bounds.
InitZero == ZInit /\ MIdle /\ CIdle /\ RIdle /\ SIdle /\ LIdle
SpecZero == InitZero /\ [][ZNext]_vars

\* mcts_zero_build_tree with the network of value 0 and uniform policy.
InitZeroUniform == ZInitUniform /\ MIdle /\ CIdle /\ RIdle /\ SIdle /\ LIdle
SpecZeroUniform == InitZeroUniform /\ [][ZNext]_vars

\* mcts_zero_build_tree and best_move, twice on the same arguments.
ZTwiceNext ==
    \/ ZCall \/ ZBegin \/ ZTerminal \/ ZExpand \/ ZSelect \/ ZBackprop
    \/ ZReturn \/ ZBestMove \/ ZRerun
InitZeroTwice == ZInit /\ MIdle /\ CIdle /\ RIdle /\ SIdle /\ LIdle
SpecZeroTwice == InitZeroTwice /\ [][ZTwiceNext]_vars

\* mcts_evaluate on every input of the bounds.
InitMcts == ZIdle /\ MInit /\ CIdle /\ RIdle /\ SIdle /\ LIdle
SpecMcts == InitMcts /\ [][MNext]_vars

\* mcts_evaluate without and then with batch_eval, on the same arguments.
MTwiceNext ==
    \/ MCall \/ MBegin \/ MExplore \/ MSelect \/ MWalkEnd \/ MFlush
    \/ MQueue \/ MRollout \/ MFinish \/ MRerun
InitMctsTwice == ZIdle /\ MInit /\ CIdle /\ RIdle /\ SIdle /\ LIdle
SpecMctsTwice == InitMctsTwice /\ [][MTwiceNext]_vars

\* Threads that call request_up_to on one counter.
InitCounter == ZIdle /\ MIdle /\ CInit /\ RIdle /\ SIdle /\ LIdle
SpecCounter == InitCounter /\ [][CNext]_vars

\* Settings::run, its workers scheduled fairly.
InitRun == ZIdle /\ MIdle /\ CIdle /\ RInit /\ SIdle /\ LIdle
SpecRun == InitRun /\ [][RNext]_vars /\ RFairness

\* Settings::run on settings of any iterations.
InitRunAnyIterations == ZIdle /\ MIdle /\ CIdle /\ RInitAnyIterations /\ SIdle /\ LIdle
SpecRunAnyIterations == InitRunAnyIterations /\ [][RNext]_vars /\ RFairness

\* Settings::run where the evaluator of one worker may fail.
SpecRunCrash == InitRun /\ [][RCrashNext]_vars /\ RFairness

\* MoveSelector::select on every input of the bounds.
InitSelect == ZIdle /\ MIdle /\ CIdle /\ RIdle /\ SInit /\ LIdle
SpecSelect == InitSelect /\ [][SNext]_vars

\* Either search, on every input of the bounds.
InitSearch ==
    /\ \/ ZInit /\ MIdle
       \/ ZIdle /\ MInit
    /\ CIdle /\ RIdle /\ SIdle /\ LIdle
NextSearch ==
    \/ ZCall \/ ZBegin \/ ZTerminal \/ ZExpand \/ ZSelect \/ ZBackprop
    \/ ZReturn \/ ZBestMove
    \/ MCall \/ MBegin \/ MExplore \/ MSelect \/ MWalkEnd \/ MFlush
    \/ MQueue \/ MRollout \/ MFinish
SpecSearch == InitSearch /\ [][NextSearch]_vars

\* The value targets of one finished game.
InitTargets ==
    ZIdle /\ MIdle /\ CIdle /\ RIdle /\ SIdle /\ GInit /\ KIdle /\ AIdle
    /\ BIdle /\ WIdle
SpecTargets == InitTargets /\ [][GNext]_vars

\* A board written to its compact string and read back.
InitCompact ==
    ZIdle /\ MIdle /\ CIdle /\ RIdle /\ SIdle /\ GIdle /\ KInit /\ AIdle
    /\ BIdle /\ WIdle
SpecCompact == InitCompact /\ [][KNext]_vars

\* AtaxxBoard alone.
InitAtaxx ==
    ZIdle /\ MIdle /\ CIdle /\ RIdle /\ SIdle /\ GIdle /\ KIdle /\ AInit
    /\ BIdle /\ WIdle
SpecAtaxx == InitAtaxx /\ [][ANext]_vars

\* AtaxxBoard with the queries for its moves.
InitAtaxxMoves ==
    ZIdle /\ MIdle /\ CIdle /\ RIdle /\ SIdle /\ GIdle /\ KIdle /\ AInit
    /\ BIdle /\ WIdle
SpecAtaxxMoves == InitAtaxxMoves /\ [][AMovesNext]_vars

\* AtaxxBoard with is_double_forced_draw.
InitAtaxxSolve ==
    ZIdle /\ MIdle /\ CIdle /\ RIdle /\ SIdle /\ GIdle /\ KIdle /\ AInit
    /\ BIdle /\ WIdle
SpecAtaxxSolve == InitAtaxxSolve /\ [][ASolveNext]_vars

\* bot_game::run alone.
InitBotGame ==
    ZIdle /\ MIdle /\ CIdle /\ RIdle /\ SIdle /\ GIdle /\ KIdle /\ AIdle
    /\ BInit /\ WIdle
SpecBotGame == InitBotGame /\ [][BNext]_vars

\* is_win_grid alone.
InitWinGrid ==
    ZIdle /\ MIdle /\ CIdle /\ RIdle /\ SIdle /\ GIdle /\ KIdle /\ AIdle
    /\ BIdle /\ WInit
SpecWinGrid == InitWinGrid /\ [][WNext]_vars

----------------------------------------------------------------------------
(* Claims about mcts_zero_build_tree.                                      *)

RECURSIVE SumVisits(_, _)
SumVisits(t, nodes) ==
    IF nodes = <<>> THEN 0
    ELSE t[Head(nodes)].visits + SumVisits(t, Tail(nodes))

\* The state between two iterations, and after the last.
BetweenIterations == zpc \in {"loop", "done", "moved"}

\* C1: for every root board that is not done and every iterations >= 1, the
\* root has been visited once per completed iteration, the final assert_eq
\* holds, and the function returns with root visits = iterations; it panics
\* only on iterations = 0 or a done board.
C1_RootVisits ==
    /\ BetweenIterations => tree[0].visits = done_iters
    /\ zpc = "done" => tree[0].visits = iterations /\ iterations >= 1
    /\ zpc = "panic" => iterations = 0 \/ is_done(board)

C1_Witness ==
    /\ zpc = "done" /\ iterations >= 4 /\ tree[0].visits = iterations
    /\ VecLen(tree) > 4

\* C2: after every completed iteration a node with children has
\* visits = 1 + the visits of its children, a node whose board is done has
\* as many visits as walks reached it, and a root with one legal move after
\* 10 iterations has 10 visits and its only child 9.
C2_VisitSums ==
    BetweenIterations =>
        /\ \A i \in DOMAIN tree :
              children(tree[i]) /= None =>
                  tree[i].visits =
                      1 + SumVisits(tree, IdxRangeIter(Unwrap(children(tree[i]))))
        /\ \A i \in DOMAIN tree :
              is_done(NodeBoard(tree, i)) => tree[i].visits = walks[i]
        /\ (zpc = "done" /\ iterations = 10
                /\ Len(available_moves(board)) = 1) =>
              /\ tree[0].visits = 10
              /\ tree[0].children_length = 1
              /\ tree[tree[0].children_start].visits = 9

C2_Witness ==
    /\ zpc = "done" /\ iterations = 10 /\ Len(available_moves(board)) = 1
    /\ tree[0].visits = 10 /\ tree[1].visits = 9
    /\ is_done(NodeBoard(tree, 1)) /\ walks[1] = 9

\* (-1)^d
Sign(d) == IF d % 2 = 0 THEN 1 ELSE -1

\* A node whose board is done and lost for the side to move at it.
LostForSideToMove(t, i) ==
    LET b == NodeBoard(t, i)
    IN  b.won_by = Some(other(b.next_player))

AfterIteration == BetweenIterations /\ done_iters > 0

----------------------------------------------------------------------------
(* Claims about mcts_evaluate.                                             *)

\* C4: after mcts_evaluate with batch_eval = true has returned, the visits
\* of the root equal iterations, also when a walk ended on a node that was
\* in the queue already.
C4_RootVisits ==
    (mpc = "done" /\ batch_eval) => m_tree[0].visits = m_iterations

\* The search of 2 iterations on the root with one move, which ends the
\* game, returns with 1 visit of the root.
C4_Shortfall ==
    /\ mpc = "done" /\ batch_eval /\ m_board = Root1 /\ m_iterations = 2
    /\ m_tree[0].visits = 1

\* The iterations that queued a node are the ones that count as visits:
\* the root is never visited more often than iterations.
C4_NeverMore ==
    /\ (mpc = "done" /\ batch_eval) => m_tree[0].visits <= m_iterations
    /\ (mpc = "done" /\ ~batch_eval) => m_tree[0].visits = m_iterations

----------------------------------------------------------------------------
(* Claims about the best move of the two searches.                         *)

\* The root children of the two trees, as sets of node indices.
ZRootChildren ==
    IF children(tree[0]) = None THEN {}
    ELSE {tree[0].children_start + k : k \in 0..(tree[0].children_length - 1)}
MRootChildren ==
    IF m_tree[0].children = None THEN {}
    ELSE Unwrap(m_tree[0].children).start
             ..(Unwrap(m_tree[0].children).end - 1)

\* c has the most visits among the nodes of set, and the lowest index of
\* those that have as many.
LowestOfMostVisited(t, set, c) ==
    /\ c \in set
    /\ \A d \in set : t[d].visits <= t[c].visits
    /\ \A d \in set : t[d].visits = t[c].visits => c <= d

\* C10: the move Tree::best_move returns, and the best_move mcts_evaluate
\* returns for a root with children, is the move of the root child with the
\* most visits, the one of the lowest index among those with the most.
C10_BestMove ==
    /\ zpc = "moved" =>
          \E c \in ZRootChildren :
             /\ LowestOfMostVisited(tree, ZRootChildren, c)
             /\ z_best_move = Some(tree[c].coord)
    /\ (mpc = "done" /\ m_tree[0].children /= None) =>
          \E c \in MRootChildren :
             /\ LowestOfMostVisited(m_tree, MRootChildren, c)
             /\ m_result = Some(m_tree[c].coord)

\* Tree::best_move has answered for a root whose three children tie on the
\* most visits.
C10_Witness ==
    /\ zpc = "moved"
    /\ Cardinality(ZRootChildren) = 3
    /\ \A c, d \in ZRootChildren : tree[c].visits = tree[d].visits
    /\ \E c \in ZRootChildren : tree[c].visits >= 1
    /\ z_best_move = Some(tree[tree[0].children_start].coord)

\* mcts_evaluate has answered for a root whose children tie on the most
\* visits.
C10_WitnessMcts ==
    /\ mpc = "done"
    /\ Cardinality(MRootChildren) >= 2
    /\ \A c, d \in MRootChildren : m_tree[c].visits = m_tree[d].visits
    /\ \E c \in MRootChildren : m_tree[c].visits >= 1

----------------------------------------------------------------------------
(* Claims about StartGameCounter.                                          *)

RECURSIVE SumPicked(_)
SumPicked(calls) ==
    IF calls = <<>> THEN 0 ELSE Head(calls).picked + SumPicked(Tail(calls))

\* The games subtracted from left by calls that have not returned yet.
InFlight ==
    LET taken(w) == IF wpc[w] = "unlock" THEN picked[w] ELSE 0
        RECURSIVE Sum(_)
        Sum(n) == IF n = 0 THEN 0 ELSE taken(n) + Sum(n - 1)
    IN  Sum(Len(wpc))

\* C5: under every interleaving of request_up_to calls, a call returns
\* min(left, max_count) of the left it found when it got the lock and left is
\* less by exactly that when it returns; the returned values sum to at most
\* the initial count; left never goes below 0; after a call that returned
\* less than its max_count every call returns 0.
C5_AtomicClaims ==
    /\ \A i \in 1..Len(returned) :
          returned[i].picked = min(returned[i].left, returned[i].max_count)
    /\ \A w \in Workers :
          wpc[w] = "unlock" => left = seen_left[w] - picked[w]
    /\ left + InFlight + SumPicked(returned) = left0
    /\ SumPicked(returned) <= left0
    /\ left >= 0
    /\ \A w \in Workers : wpc[w] /= "overflow"
    /\ \A i, j \in 1..Len(returned) :
          (i < j /\ returned[i].picked < returned[i].max_count)
              => returned[j].picked = 0

\* Two threads have called; a call got less than it asked for, and the call
\* after it got 0 although it asked for more.
C5_Witness ==
    /\ Len(returned) = 3
    /\ returned[1].worker /= returned[2].worker
    /\ returned[1].picked = returned[1].max_count /\ returned[1].picked > 0
    /\ returned[2].picked < returned[2].max_count /\ returned[2].picked > 0
    /\ returned[3].picked = 0 /\ returned[3].max_count > 0
    /\ left = 0

----------------------------------------------------------------------------
(* Claims about Settings::run.                                             *)

RunSafe ==
    /\ sent <= game_count
    /\ received + Len(channel) = sent
    /\ run_pc = "returned" =>
          /\ sent = game_count
          /\ received = game_count
          /\ \A w \in Workers : wpc[w] = "exited" /\ picked[w] = 0

\* C6: with one worker or more, whatever the scheduling, never more than
\* game_count Simulations are sent; run returns in the end, and by then
\* exactly game_count Simulations have been sent and received and every
\* worker has got 0 from the counter and exited.
C6_RunCompletes == []RunSafe /\ <>(run_pc = "returned")

\* run has returned after two workers each played one of the two games.
C6_Witness ==
    /\ run_pc = "returned" /\ game_count = 2 /\ received = 2
    /\ Len(wpc) = 2
    /\ \E i, j \in 1..Len(returned) :
          /\ returned[i].worker = 1 /\ returned[i].picked = 1
          /\ returned[j].worker = 2 /\ returned[j].picked = 1

\* C7: after a worker has failed with a game it had claimed, the collector
\* still comes to an end.
C7_CollectorEnds ==
    (\E w \in Workers : wpc[w] = "crashed")
        ~> (run_pc \in {"join", "panic", "returned"})

\* A worker has failed with the only game; the other worker has exited, the
\* channel is empty and the collector waits for a Simulation.
C7_Witness ==
    /\ run_pc = "collect" /\ game_count = 1 /\ received = 0
    /\ channel = <<>> /\ SenderAlive
    /\ Len(wpc) = 2 /\ wpc[1] = "crashed" /\ wpc[2] = "exited"

\* The other workers are not held up by the failed one: each of them exits.
C7_OthersExit ==
    (\E w \in Workers : wpc[w] = "crashed")
        ~> (\A w \in Workers : wpc[w] \in {"crashed", "exited"})

----------------------------------------------------------------------------
(* Claims about MoveSelector::select.                                      *)

\* The lowest index, from 0, of a maximum of the policy.
LowestMaxIndex(policy) ==
    (CHOOSE k \in 1..Len(policy) :
        /\ \A j \in 1..Len(policy) : policy[j] <= policy[k]
        /\ \A j \in 1..(k - 1) : policy[j] < policy[k]) - 1

\* C8: select samples exactly when move_count < inf_temp_move_count and
\* takes the maximum for every move_count >= inf_temp_move_count; with
\* inf_temp_move_count = 0 no call samples.
C8_SamplesBelowT ==
    (sel /= None /\ Unwrap(sel).pc = "done") =>
        LET s == Unwrap(sel)
        IN  /\ s.branch = "random" <=> s.move_count < s.inf_temp_move_count
            /\ s.inf_temp_move_count = 0 => s.branch = "best"

\* What the code does: it samples at move_count = inf_temp_move_count too.
C8_SamplesUpToT ==
    (sel /= None /\ Unwrap(sel).pc = "done") =>
        LET s == Unwrap(sel)
        IN  s.branch = "random" <=> s.move_count <= s.inf_temp_move_count

\* The call with inf_temp_move_count = 0 at move_count 0 has sampled a move
\* that is not a maximum of the policy.
C8_SampledAtT ==
    /\ sel /= None /\ Unwrap(sel).pc = "done"
    /\ Unwrap(sel).inf_temp_move_count = 0 /\ Unwrap(sel).move_count = 0
    /\ Unwrap(sel).branch = "random"
    /\ Unwrap(sel).policy = <<1, 2>> /\ Unwrap(sel).result = 0

\* C9: a call that takes the maximum returns the lowest index among the
\* entries that share the maximum.
C9_LowestIndexOnTies ==
    (sel /= None /\ Unwrap(sel).pc = "done" /\ Unwrap(sel).branch = "best") =>
        Unwrap(sel).result = LowestMaxIndex(Unwrap(sel).policy)

\* The call on the policy <<2, 2>> has returned index 1.
C9_LastOnTies ==
    /\ sel /= None /\ Unwrap(sel).pc = "done" /\ Unwrap(sel).branch = "best"
    /\ Unwrap(sel).policy = <<2, 2>> /\ Unwrap(sel).result = 1

----------------------------------------------------------------------------
(* Claims about the selection step of mcts_zero_build_tree.  In a state    *)
(* with zpc = "walk" and a parent_list that is not empty the walk has just *)
(* selected curr_node among the children of the last node of parent_list,  *)
(* and the tree is the one the selection read.                             *)

JustSelected == zpc = "walk" /\ parent_list /= <<>>
SelectedFrom == parent_list[Len(parent_list)]
Siblings == Unwrap(children(tree[SelectedFrom]))
SiblingSet == {Siblings.start + k : k \in 0..(Siblings.length - 1)}

\* The score the selection gave to child c.
ScoreOf(c) == uct(tree[c], exploration_weight, tree[SelectedFrom].visits)

\* No sibling has a greater score than c, in the order of OrderedFloat.
HasMaxScore(c) == \A d \in SiblingSet : ~OrderedGreater(ScoreOf(d), ScoreOf(c))

\* C11: the child selected is the first, in iteration order, of the children
\* that share the maximal score.
C11_FirstOnTies ==
    JustSelected =>
        /\ HasMaxScore(curr_node)
        /\ \A d \in SiblingSet : HasMaxScore(d) => curr_node <= d

\* Two visited children of equal visits, total_value and policy share the
\* maximal score, a number, and the walk has selected the later of them.
C11_LaterOnTies ==
    /\ JustSelected
    /\ ~ScoreOf(curr_node).nan
    /\ \E d \in SiblingSet :
          /\ d < curr_node /\ HasMaxScore(d)
          /\ tree[d].visits = tree[curr_node].visits
          /\ tree[d].total_value = tree[curr_node].total_value
          /\ tree[d].policy = tree[curr_node].policy

\* What the code does: the last of the children with the maximal score.
C11_LastOnTies ==
    JustSelected =>
        /\ HasMaxScore(curr_node)
        /\ \A d \in SiblingSet : HasMaxScore(d) => d <= curr_node

\* The score of the description: Q = 0 for a child without visits.
ScoreWithQZero(c) ==
    LET node == tree[c]
        u == (node.policy * Isqrt(tree[SelectedFrom].visits * 1000000))
                 \div (100 * (1 + node.visits))
        q == IF node.visits = 0 THEN 0
             ELSE (1000 * node.total_value) \div node.visits
    IN  q + exploration_weight * u

\* C12: a child without visits is scored with Q = 0 and selected only when
\* that score is the maximum among its siblings; a child with visits is
\* scored with Q = total_value / visits.
C12_UnvisitedQZero ==
    JustSelected =>
        /\ \A d \in SiblingSet : ScoreWithQZero(d) <= ScoreWithQZero(curr_node)
        /\ \A d \in SiblingSet :
              tree[d].visits > 0 => ScoreOf(d) = F32(ScoreWithQZero(d))

\* The walk has selected a child without visits although a visited sibling
\* has the greater score with Q = 0.
C12_UnvisitedWins ==
    /\ JustSelected
    /\ tree[curr_node].visits = 0
    /\ \E d \in SiblingSet :
          tree[d].visits > 0 /\ ScoreWithQZero(d) > ScoreWithQZero(curr_node)

\* What the code does: the score of a child without visits is NaN, which
\* OrderedFloat puts above every number, so a child without visits is
\* selected whenever there is one.
C12_UnvisitedFirst ==
    JustSelected =>
        /\ \A d \in SiblingSet : tree[d].visits = 0 <=> ScoreOf(d).nan
        /\ (\E d \in SiblingSet : tree[d].visits = 0)
              => tree[curr_node].visits = 0

----------------------------------------------------------------------------
(* Claims about the nodes of the tree of mcts_zero_build_tree.             *)

\* The tree exists from the push of the root on.
TreeBuilt == zpc \in {"loop", "walk", "backprop", "done", "moved"}

HasChildren(n) == children(tree[n]) /= None

\* C13: at every step of mcts_zero_build_tree a node has children exactly
\* when a walk has reached it and its board is not done, and it has an
\* evaluation exactly when it has children.
C13_ChildrenIffExpanded ==
    TreeBuilt =>
        \A n \in DOMAIN tree :
           /\ HasChildren(n) <=>
                 (walks[n] >= 1 /\ ~is_done(NodeBoard(tree, n)))
           /\ tree[n].evaluation /= None <=> HasChildren(n)
           /\ HasChildren(n) => tree[n].children_length >= 1

\* A tree with an expanded node below the root, a done node reached by a
\* walk and a node no walk has reached.
C13_Witness ==
    /\ zpc = "done"
    /\ \E n \in DOMAIN tree : n /= 0 /\ HasChildren(n)
    /\ \E n \in DOMAIN tree :
          walks[n] >= 1 /\ is_done(NodeBoard(tree, n)) /\ ~HasChildren(n)
          /\ tree[n].evaluation = None
    /\ \E n \in DOMAIN tree :
          walks[n] = 0 /\ ~is_done(NodeBoard(tree, n)) /\ ~HasChildren(n)


Abs(x) == IF x < 0 THEN -x ELSE x

\* C14: with network values in [-1, +1], after every iteration every node
\* has |total_value| <= visits.
C14_ValueBound ==
    (TreeBuilt /\ BetweenIterations) =>
        \A n \in DOMAIN tree : Abs(tree[n].total_value) <= tree[n].visits

\* After the last iteration a node has total_value = visits >= 2 and
\* another has total_value = -visits <= -2.
C14_Witness ==
    /\ zpc = "done"
    /\ \E n \in DOMAIN tree :
          tree[n].visits >= 2 /\ tree[n].total_value = tree[n].visits
    /\ \E n \in DOMAIN tree :
          tree[n].visits >= 2 /\ tree[n].total_value = -tree[n].visits

\* The children range of node n, as a set of indices.
RangeOf(t, n) ==
    IF t[n].children_start = 0 THEN {}
    ELSE t[n].children_start .. (t[n].children_start + t[n].children_length - 1)

\* C15: after every iteration every children range starts at an index >= 1
\* above its parent's and lies inside the node vector, the ranges of
\* distinct parents are disjoint, every node but the root lies in exactly
\* one range, and the range, move and prior of a node are the ones it had
\* when the iteration began (the tree only grows at its end).
C15_WellFormed ==
    (TreeBuilt /\ BetweenIterations) =>
        /\ \A n \in DOMAIN tree :
              HasChildren(n) =>
                 /\ tree[n].children_start >= 1
                 /\ tree[n].children_start > n
                 /\ RangeOf(tree, n) \subseteq DOMAIN tree
        /\ \A n, m \in DOMAIN tree :
              n /= m => RangeOf(tree, n) \cap RangeOf(tree, m) = {}
        /\ \A c \in DOMAIN tree :
              c /= 0 => \E n \in DOMAIN tree : c \in RangeOf(tree, n)
        /\ \A n \in DOMAIN tree : 0 \notin RangeOf(tree, n)
        /\ DOMAIN tree0 \subseteq DOMAIN tree
        /\ \A n \in DOMAIN tree0 :
              /\ tree[n].coord = tree0[n].coord
              /\ tree[n].policy = tree0[n].policy
              /\ tree0[n].children_start /= 0 =>
                    /\ tree[n].children_start = tree0[n].children_start
                    /\ tree[n].children_length = tree0[n].children_length

\* Three nodes have been expanded, the last of them in the last iteration.
C15_Witness ==
    /\ zpc = "done"
    /\ Cardinality({n \in DOMAIN tree : HasChildren(n)}) = 3
    /\ VecLen(tree) > VecLen(tree0)
    /\ VecLen(tree0) > 1


\* C16: network.evaluate never gets the board of a finished game, is called
\* at most once per iteration (at most iterations times in all), and never
\* for the same node twice.
C16_Evaluations ==
    TreeBuilt =>
        /\ \A k \in 1..Len(evals) : ~is_done(NodeBoard(tree, evals[k]))
        /\ Len(evals) <= done_iters + (IF zpc = "backprop" THEN 1 ELSE 0)
        /\ Len(evals) <= iterations
        /\ \A j, k \in 1..Len(evals) : j /= k => evals[j] /= evals[k]

\* Two nodes have been evaluated in ten iterations, the other iterations
\* ended at finished games.
C16_Witness ==
    /\ zpc = "done" /\ Len(evals) = 2 /\ iterations = 10
    /\ evals[1] = 0 /\ evals[2] /= 0
    /\ \E n \in DOMAIN tree : walks[n] >= 2 /\ is_done(NodeBoard(tree, n))


\* C17: called with the board of a finished game, mcts_zero_build_tree
\* fails on its assertion before a node is created and before the network
\* is called; it never returns a tree.
C17_DoneRootPanics ==
    board.won_by /= None =>
        /\ zpc \in {"call", "panic"}
        /\ tree = <<>>
        /\ evals = <<>>

\* The call with iterations >= 1 on a finished game has failed.
C17_Witness ==
    /\ zpc = "panic" /\ board = DoneBoard /\ iterations >= 1
    /\ tree = <<>> /\ evals = <<>>


\* C18: with iterations = 0 in the settings Settings::run fails before the
\* output file is created and before a worker thread is spawned.
C18_FailsFast ==
    gen_iterations = 0 =>
        /\ ~output_file
        /\ wpc = <<>>
        /\ run_pc \in {"call", "panic"}

\* With iterations = 0 the output file has been created, the workers have
\* been spawned, and a worker has panicked in its first tree build.
C18_FailsInWorker ==
    /\ gen_iterations = 0 /\ output_file
    /\ run_pc = "collect"
    /\ \E w \in Workers : wpc[w] = "panicked"


\* The legal moves of a board, by Board::is_available_move.
LegalMoves(b) ==
    IF is_done(b) THEN {} ELSE {c \in 0..80 : is_available_move(b, c)}

\* The tree mcts_zero_build_tree returns for iterations = 1.
BuiltWithOne == zpc \in {"done", "moved"} /\ iterations = 1

\* C19: after mcts_zero_build_tree with iterations = 1 on a root that is not
\* done the root is expanded with one child per legal move, the root has 1
\* visit, every child has 0 visits and total_value 0, and best_move does not
\* fail: it returns the move of the child of lowest index.
C19_OneIteration ==
    BuiltWithOne =>
        /\ ~is_done(board)
        /\ HasChildren(0)
        /\ tree[0].children_start = 1
        /\ VecLen(tree) = 1 + tree[0].children_length
        /\ Cardinality(ZRootChildren) = Cardinality(LegalMoves(board))
        /\ {tree[c].coord : c \in ZRootChildren} = LegalMoves(board)
        /\ tree[0].visits = 1
        /\ \A c \in ZRootChildren :
              tree[c].visits = 0 /\ tree[c].total_value = 0
        /\ best_move(tree) = Some(tree[1].coord)
        /\ zpc = "moved" => z_best_move = Some(tree[1].coord)

\* best_move has returned the first child of a root built with iterations = 1
\* although a later child has a higher prior.
C19_Witness ==
    /\ zpc = "moved" /\ iterations = 1
    /\ Cardinality(ZRootChildren) >= 2
    /\ z_best_move = Some(tree[1].coord)
    /\ \E c \in ZRootChildren : tree[c].policy > tree[1].policy

\* The move best_move returns for iterations = 1 is one of highest prior.
C19_HighestPrior ==
    (zpc = "moved" /\ iterations = 1) =>
        \E c \in ZRootChildren :
           /\ z_best_move = Some(tree[c].coord)
           /\ \A d \in ZRootChildren : tree[d].policy <= tree[c].policy


\* The node indices of the queue entries.
QueuedNodes == {eval_queue[i].node : i \in 1..Len(eval_queue)}
NoDuplicates ==
    \A i, j \in 1..Len(eval_queue) :
       eval_queue[i].node = eval_queue[j].node => i = j

\* C20: in mcts_evaluate with batch_eval = true the queue never holds a node
\* index twice, and a node is in the queue exactly when its needs_eval is
\* true.
C20_QueueMatchesFlags ==
    batch_eval =>
        /\ NoDuplicates
        /\ QueuedNodes \subseteq DOMAIN m_tree
        /\ \A n \in DOMAIN m_tree :
              m_tree[n].needs_eval <=> n \in QueuedNodes

\* A walk has ended at a node that is in the queue already, next to another
\* queued node.
C20_Witness ==
    /\ batch_eval /\ mpc = "simulate"
    /\ Len(eval_queue) >= 2
    /\ m_tree[m_curr_node].needs_eval
    /\ m_curr_node \in QueuedNodes


\* C21: in mcts_evaluate with batch_eval = true a walk that ends on a
\* finished board is not placed in the evaluation queue: its result is added
\* to the wins of its path within the same iteration.
C21_TerminalNotQueued ==
    batch_eval =>
        \A i \in 1..Len(eval_queue) : ~is_done(eval_queue[i].board)

\* An iteration has ended with its finished board waiting in the queue: the
\* visits of the path are counted, no result has reached the wins of the leaf.
C21_TerminalQueued ==
    /\ batch_eval /\ mpc = "loop"
    /\ \E i \in 1..Len(eval_queue) :
          /\ is_done(eval_queue[i].board)
          /\ m_tree[eval_queue[i].node].needs_eval
          /\ m_tree[eval_queue[i].node].visits = 1
          /\ m_tree[eval_queue[i].node].wins = 0

\* Every iteration of the batched search whose walk ends on a finished board
\* adds one visit to the root. (It does not when the node is in the queue
\* already: the queue is evaluated and the walk is dropped.)
C21_TerminalCounted ==
    [][(batch_eval /\ mpc = "simulate" /\ is_done(m_curr_board)
          /\ m_done_iters' = m_done_iters + 1)
       => m_tree'[0].visits = m_tree[0].visits + 1]_vars


\* C22: when mcts_evaluate with batch_eval = true returns, the evaluation
\* queue is empty and needs_eval is false on every node of the tree.
C22_NothingInFlight ==
    (mpc = "done" /\ batch_eval) =>
        /\ eval_queue = <<>>
        /\ \A n \in DOMAIN m_tree : ~m_tree[n].needs_eval

\* The batched search has returned after iterations that all queued a leaf:
\* the last do_batch_evals had two or more entries to evaluate.
C22_Witness ==
    /\ mpc = "done" /\ batch_eval
    /\ m_iterations >= 2
    /\ m_tree[0].visits = m_iterations
    /\ eval_queue = <<>>


\* From the board on every player has one move to choose from until the game
\* is done: no draw of rand and no result of a playout changes the walks.
RECURSIVE Forced(_)
Forced(b) ==
    IF is_done(b) THEN TRUE
    ELSE LET moves == available_moves(b)
         IN  Len(moves) = 1 /\ Forced(play(b, moves[1]))

\* Both calls have returned.
BothReturned == mpc = "done" /\ batch_eval /\ ref_tree /= <<>>

\* C23: on the same board with the same iterations mcts_evaluate with
\* batch_eval = true leaves the same visits on every node as with
\* batch_eval = false (compared where the walks depend on no random draw).
C23_SameVisits ==
    (BothReturned /\ Forced(m_board)) =>
        /\ DOMAIN m_tree = DOMAIN ref_tree
        /\ \A n \in DOMAIN m_tree : m_tree[n].visits = ref_tree[n].visits

\* Root1 has one legal move, which ends the game: after 2 iterations the
\* root and its child have 2 visits without batch_eval and 1 with it.
C23_VisitsDiffer ==
    /\ BothReturned /\ m_board = Root1 /\ m_iterations = 2
    /\ ref_tree[0].visits = 2 /\ ref_tree[1].visits = 2
    /\ m_tree[0].visits = 1 /\ m_tree[1].visits = 1

\* Without batch_eval every iteration adds one visit to the root.
C23_UnbatchedRootVisits ==
    (mpc = "done" /\ ~batch_eval) => m_tree[0].visits = m_iterations


\* C24: in mcts_evaluate with batch_eval = true the queue never holds more
\* than the cap: between the steps it holds fewer entries than the cap, the
\* push that brings it to the cap is followed by do_batch_evals at once, and
\* the queue is empty when the call has returned.
C24_QueueBelowCap ==
    /\ [](batch_eval => Len(eval_queue) < batch_cap)
    /\ []((batch_eval /\ mpc = "done") => eval_queue = <<>>)
    /\ [][(batch_eval /\ mpc = "simulate"
             /\ ~m_tree[m_curr_node].needs_eval
             /\ Len(eval_queue) + 1 = batch_cap)
          => (eval_queue' = <<>>
                /\ \A n \in DOMAIN m_tree' : ~m_tree'[n].needs_eval)]_vars

\* Every iteration so far has queued its leaf, the last push has brought the
\* queue to the cap and the batch has been evaluated.
C24_Witness ==
    /\ batch_eval /\ mpc = "loop"
    /\ batch_cap = SmallCap
    /\ m_done_iters = batch_cap
    /\ m_tree[0].visits = batch_cap
    /\ eval_queue = <<>>
    /\ \A n \in DOMAIN m_tree : ~m_tree[n].needs_eval


\* The network answered as a function of the board, in both searches.
FunctionalNet ==
    \A m, n \in net_memo : m.board = n.board => m.out = n.out
BothMoved == zpc = "moved" /\ z_ref /= None

C26_ValueTargets ==
    \A k \in 1..Len(g_targets) :
       LET p == g_players[k]
       IN  /\ g_targets[k] = (IF g_outcome = WonBy(p) THEN 1
                              ELSE IF g_outcome = WonBy(PlayerOther(p)) THEN -1
                              ELSE 0)
           /\ g_outcome = Draw <=> g_targets[k] = 0
           /\ pov(g_outcome, PlayerOther(p)) = flip(pov(g_outcome, p))
           /\ sign(pov(g_outcome, PlayerOther(p))) = -g_targets[k]
           /\ sign(flip(pov(g_outcome, p))) = -sign(pov(g_outcome, p))

\* A decided game whose positions have both sides to move: all targets are
\* computed, +1 and -1 among them.
C26_Witness ==
    /\ g_outcome /= Draw
    /\ Len(g_targets) = Len(g_players)
    /\ \E j, k \in 1..Len(g_targets) : g_targets[j] = 1 /\ g_targets[k] = -1


\* C27: for every board reached from Board::new() by Board::play, the board
\* read from its compact string equals it in every field.
C27_RoundTrip ==
    k_parsed /= None =>
        LET b == Unwrap(k_parsed)
        IN  /\ b.grids = k_board.grids
            /\ b.main_grid = k_board.main_grid
            /\ b.last_move = k_board.last_move
            /\ b.next_player = k_board.next_player
            /\ b.won_by = k_board.won_by
            /\ b.macro_mask = k_board.macro_mask
            /\ b.macro_open = k_board.macro_open
            /\ b = k_board

\* A won game with closed macros has been written and read back.
C27_Witness ==
    /\ k_parsed /= None
    /\ k_board.won_by \in {Some("Player"), Some("Enemy")}
    /\ k_board.macro_open /= FULL_MASK
    /\ k_board.macro_mask /= k_board.macro_open
    /\ Unwrap(k_parsed) = k_board


\* The network has answered value 0 and the uniform policy every time.
UniformZeroNet == network = {UniformZero}
\* No value other than 0 has been backed up.
AllValuesZero == \A n \in DOMAIN tree : tree[n].total_value = 0
VisitsBalanced ==
    \A c, d \in ZRootChildren : Abs(tree[c].visits - tree[d].visits) <= 1

\* C28: with a network of uniform policy and value 0, the visits of any two
\* children of the root differ by at most 1 when mcts_zero_build_tree
\* returns.
C28_Original ==
    (zpc \in {"done", "moved"} /\ UniformZeroNet) => VisitsBalanced

\* C28, amended: ... provided no walk has reached a decided game, so that
\* every value backed up was 0.
C28_Amended ==
    (zpc \in {"done", "moved"} /\ UniformZeroNet /\ AllValuesZero)
        => VisitsBalanced

\* Ten iterations on a root of three children, every value 0: the children
\* have 3 visits each.
C28_Witness ==
    /\ zpc = "moved" /\ UniformZeroNet /\ AllValuesZero
    /\ board = Root5 /\ iterations = MaxIter
    /\ Cardinality(ZRootChildren) = 3
    /\ \A c \in ZRootChildren : tree[c].visits >= 3
    /\ VisitsBalanced

\* On Root3 the two children that win the game have two visits more than
\* the third.
C28_Unbalanced ==
    /\ zpc = "moved" /\ UniformZeroNet /\ board = Root3
    /\ \E c, d \in ZRootChildren : tree[c].visits >= tree[d].visits + 2


----------------------------------------------------------------------------
(* The value of a walk that ends on a finished game.                        *)

\* The outcome of a finished board for the player to move on it.
OutcomeToMove(b) ==
    CASE Unwrap(b.won_by) = Neutral -> 0
      [] Unwrap(b.won_by) = b.next_player -> 1
      [] OTHER -> -1

\* A walk that stopped on a finished game (lines 148-152) and has not yet
\* started to back its value up.
TerminalWalk == zpc = "backprop" /\ is_done(curr_board)

\* C29: a walk that reaches a finished board starts backpropagation with the
\* outcome for the player to move on that board, and on the boards of the
\* search (the root and every board a walk reaches by Board::play) a game
\* that somebody won was never won by the player to move.
C29_TerminalValue ==
    /\ TerminalWalk => value = OutcomeToMove(curr_board)
    /\ \A b \in {board, curr_board} :
          is_done(b) => Unwrap(b.won_by) /= b.next_player

\* A walk that went down at least two plays from the root and stopped on a
\* game won by the player who made the last play.
C29_Witness ==
    /\ TerminalWalk
    /\ Len(parent_list) >= 3
    /\ Unwrap(curr_board.won_by) = other(curr_board.next_player)
    /\ value = -1


----------------------------------------------------------------------------
(* Pass moves of AtaxxBoard.                                                *)

\* Both players have to pass on the board.
BothMustPass(b) == must_pass(b, b.tiles_a) /\ must_pass(b, b.tiles_b)

\* C30: on the Ataxx boards reached by play from the default start, while
\* the outcome is None at most one player has to pass; the player to move
\* after a Pass has a copy or jump move, two Pass moves in a row never
\* occur, and a board whose outcome is None is one that update_outcome
\* leaves at None, although play does not call it for a Pass.
C30_OnePassAtMost ==
    /\ at_board.outcome = None => ~BothMustPass(at_board)
    /\ (at_last = Some(MovePass) /\ at_board.outcome = None) =>
          ~must_pass(at_board, tiles_pov(at_board)[1])
    /\ at_passes <= 1
    /\ at_board.outcome = None => update_outcome(at_board).outcome = None

\* play has just made a Pass on a board with ten or more free tiles: the
\* game goes on and the other player, who made the move before, moves again.
C30_Witness ==
    /\ at_plays >= 1
    /\ at_last = Some(MovePass)
    /\ at_passes = 1
    /\ at_board.outcome = None
    /\ Cardinality(free_tiles(at_board)) >= 10
    /\ AtaxxAvailableMoves(at_board) /= {MovePass}


----------------------------------------------------------------------------
(* The moves of an AtaxxBoard.                                              *)

\* Every value of Move on the board: Pass, a copy to any tile, a jump from
\* any tile to any tile.
AtaxxMoveValues ==
    {MovePass} \cup {MoveCopy(to) : to \in CoordAll}
    \cup {MoveJump(from, to) : from \in CoordAll, to \in CoordAll}

\* The player to move can copy or jump.
CanCopyOrJump(b) ==
    \E to \in free_tiles(b) : \E from \in tiles_pov(b)[1] :
        distance(from, to) \in {1, 2}

\* C31: on a board whose outcome is None, available_moves gives exactly the
\* moves that is_available_move accepts, Pass is among them exactly when
\* the player to move cannot copy or jump and is then the only one, and
\* random_available_move returns one of them.
C31_MovesAgree ==
    at_query /= None =>
        LET q == Unwrap(at_query)
        IN  /\ q.op = "available_moves" =>
                /\ q.moves = {mv \in AtaxxMoveValues :
                                AtaxxIsAvailableMove(at_board, mv)}
                /\ MovePass \in q.moves <=> ~CanCopyOrJump(at_board)
                /\ MovePass \in q.moves => q.moves = {MovePass}
            /\ q.op = "random_available_move" =>
                /\ q.mv \in AtaxxAvailableMoves(at_board)
                /\ AtaxxIsAvailableMove(at_board, q.mv)

\* available_moves was called on a board where the player to move can both
\* copy and jump, and gave moves of both kinds.
C31_Witness ==
    /\ at_query /= None
    /\ Unwrap(at_query).op = "available_moves"
    /\ \E mv \in Unwrap(at_query).moves : mv.kind = "Copy"
    /\ \E mv \in Unwrap(at_query).moves : mv.kind = "Jump"
    /\ at_board.outcome = None


----------------------------------------------------------------------------
(* The outcome of an AtaxxBoard.                                            *)

\* The result by the number of tiles.
ResultByCount(b) ==
    LET count_a == Cardinality(b.tiles_a)
        count_b == Cardinality(b.tiles_b)
    IN  IF count_a > count_b THEN WonBy("A")
        ELSE IF count_b > count_a THEN WonBy("B")
        ELSE Draw

\* C32: after a play the outcome is the result for the tiles: a player
\* without tiles has lost to the other, when neither player can move the
\* player with more tiles has won (Draw on equal counts), and the outcome
\* is None only if some player can move.
C32_OutcomeCorrect ==
    (at_plays >= 1 /\ at_last /= None) =>
        /\ (at_board.tiles_a = {} /\ at_board.tiles_b /= {}) =>
              at_board.outcome = Some(WonBy("B"))
        /\ (at_board.tiles_b = {} /\ at_board.tiles_a /= {}) =>
              at_board.outcome = Some(WonBy("A"))
        /\ BothMustPass(at_board) =>
              at_board.outcome = Some(ResultByCount(at_board))
        /\ at_board.outcome = None => ~BothMustPass(at_board)

\* The hundredth jump in a row has taken the last tiles of A, and the
\* outcome is a Draw.
C32_DrawAfterLastTile ==
    /\ at_plays >= 1
    /\ at_last = Some(MoveJump(27, 13))
    /\ at_board.tiles_a = {}
    /\ at_board.tiles_b = {2, 5, 6, 13}
    /\ at_board.moves_since_last_copy = MAX_MOVES_SINCE_LAST_COPY
    /\ at_board.outcome = Some(Draw)

\* The same statement for the games that the count of moves has not ended:
\* it holds.
C32_OutcomeBelowLimit ==
    at_board.moves_since_last_copy < MAX_MOVES_SINCE_LAST_COPY =>
        C32_OutcomeCorrect


----------------------------------------------------------------------------
(* The length of an Ataxx game.                                             *)

\* A measure of what is left of a game: the free tiles count most, then the
\* jumps left before the limit, then whether the player to move has to pass.
AtaxxRank(b) ==
    Cardinality(free_tiles(b)) * (2 * MAX_MOVES_SINCE_LAST_COPY + 2)
    + 2 * (MAX_MOVES_SINCE_LAST_COPY - b.moves_since_last_copy)
    + (IF must_pass(b, tiles_pov(b)[1]) THEN 1 ELSE 0)

\* The tiles of A, the tiles of B and the gaps have no tile in common.
TilesDisjoint(b) ==
    /\ b.tiles_a \cap b.tiles_b = {}
    /\ b.tiles_a \cap b.gaps = {}
    /\ b.tiles_b \cap b.gaps = {}

\* C33: on the Ataxx boards reached by play, moves_since_last_copy is at
\* most 100 and the game is a Draw when it is 100, the tiles of A, the
\* tiles of B and the gaps are disjoint, a copy resets the count and a jump
\* adds 1 to it, and every play lowers a measure that is never negative, so
\* that every game ends after a bounded number of moves.
C33_Terminates ==
    /\ [](/\ at_board.moves_since_last_copy <= MAX_MOVES_SINCE_LAST_COPY
          /\ at_board.moves_since_last_copy = MAX_MOVES_SINCE_LAST_COPY =>
                at_board.outcome = Some(Draw)
          /\ TilesDisjoint(at_board)
          /\ AtaxxRank(at_board) >= 0)
    /\ [][/\ AtaxxRank(at_board') < AtaxxRank(at_board)
          /\ at_board.outcome = None
          /\ at_board'.moves_since_last_copy =
                CASE Unwrap(at_last').kind = "Copy" -> 0
                  [] Unwrap(at_last').kind = "Jump" ->
                        at_board.moves_since_last_copy + 1
                  [] OTHER -> at_board.moves_since_last_copy]_at_board

\* A jump that took no tile was the hundredth move without a copy: both
\* players have tiles and moves, and the game is a Draw.
C33_Witness ==
    /\ at_plays >= 1
    /\ Unwrap(at_last).kind = "Jump"
    /\ at_board.moves_since_last_copy = MAX_MOVES_SINCE_LAST_COPY
    /\ at_board.outcome = Some(Draw)
    /\ at_board.tiles_a /= {}
    /\ at_board.tiles_b /= {}
    /\ ~BothMustPass(at_board)


----------------------------------------------------------------------------
(* is_double_forced_draw.                                                   *)

\* Every sequence of legal moves from b ends within depth moves, and in a
\* Draw.
RECURSIVE AllEndInDraw(_, _)
AllEndInDraw(b, depth) ==
    IF b.outcome /= None THEN Unwrap(b.outcome) = Draw
    ELSE /\ depth > 0
         /\ \A mv \in AtaxxAvailableMoves(b) :
                AllEndInDraw(AtaxxPlay(b, mv), depth - 1)

\* Some sequence of at most depth legal moves from b ends in a game that is
\* not a Draw.
RECURSIVE ReachesNonDraw(_, _)
ReachesNonDraw(b, depth) ==
    IF b.outcome /= None THEN Unwrap(b.outcome) /= Draw
    ELSE /\ depth > 0
         /\ \E mv \in AtaxxAvailableMoves(b) :
                ReachesNonDraw(AtaxxPlay(b, mv), depth - 1)

\* A call of is_double_forced_draw has returned.
Solved == at_query /= None /\ Unwrap(at_query).op = "is_double_forced_draw"

\* C34: is_double_forced_draw(board, depth) is Some(true) exactly when
\* every sequence of legal moves ends within depth moves in a Draw, and it
\* is Some(false) only when some sequence of at most depth moves ends in a
\* game that is not a Draw.
C34_ForcedDraw ==
    Solved =>
        LET q == Unwrap(at_query)
        IN  /\ q.result = Some(TRUE) <=> AllEndInDraw(at_board, q.depth)
            /\ q.result = Some(FALSE) => ReachesNonDraw(at_board, q.depth)

\* The board after 99 jumps in a row, on which B can only jump: with depth 1
\* the answer is Some(true), every move being the hundredth jump.
C34_Witness ==
    /\ Solved
    /\ Unwrap(at_query).depth = 1
    /\ Unwrap(at_query).result = Some(TRUE)
    /\ at_board.outcome = None
    /\ Cardinality(AtaxxAvailableMoves(at_board)) >= 2

\* C35: when some sequence of at most depth legal moves ends in a game that
\* is not a Draw, is_double_forced_draw returns Some(false); None is
\* returned only when no sequence settles the question within depth.
C35_NoneOnlyIfUnknown ==
    Solved =>
        LET q == Unwrap(at_query)
        IN  /\ ReachesNonDraw(at_board, q.depth) => q.result = Some(FALSE)
            /\ q.result = None =>
                  /\ ~ReachesNonDraw(at_board, q.depth)
                  /\ ~AllEndInDraw(at_board, q.depth)

\* On the board before the last jump of the fourth game, B can win at once
\* by the jump from 27 to 13, and is_double_forced_draw(board, 1) is None:
\* the first move it tries is a copy after which the game goes on.
C35_WinMissed ==
    /\ Solved
    /\ Unwrap(at_query).depth = 1
    /\ Unwrap(at_query).result = None
    /\ at_board = AtaxxPositionAfter(AtaxxLine4, 7).board
    /\ AtaxxPlay(at_board, MoveJump(27, 13)).outcome = Some(WonBy("B"))
    /\ MoveJump(27, 13) \in AtaxxAvailableMoves(at_board)


----------------------------------------------------------------------------
(* The counts of bot_game::run.                                             *)

\* The games of the history that g holds of.
GamesWhere(g(_)) == Cardinality({k \in 1..Len(bg_hist) : g(bg_hist[k])})

\* The player whose moves bot_l, or bot_r, selects in a game: the players
\* take turns, a pass being a move, and bot_l selects the first move of a
\* game that is not flipped.
LeftPlayer(game) ==
    IF game.flip THEN PlayerOther(bg_args.start.next_player)
    ELSE bg_args.start.next_player
RightPlayer(game) == PlayerOther(LeftPlayer(game))
WonByLeft(game) == game.outcome = WonBy(LeftPlayer(game))
WonByRight(game) == game.outcome = WonBy(RightPlayer(game))
LeftFirst(game) == game.first = "l"
RightFirst(game) == game.first = "r"

\* Every move of a game was selected by the bot of the player to move.
PlayersAsSelected ==
    \A k \in 1..Len(bg_hist) :
        /\ bg_hist[k].l_players \subseteq {LeftPlayer(bg_hist[k])}
        /\ bg_hist[k].r_players \subseteq {RightPlayer(bg_hist[k])}

\* The counts of the result are those of the games as they were played.
CountsRight ==
    LET out == Unwrap(bg_out)
    IN  /\ PlayersAsSelected
        /\ out.wins_l = GamesWhere(WonByLeft)
        /\ out.wins_r = GamesWhere(WonByRight)
        /\ out.wins_l + out.wins_r + out.draws = out.game_count
        /\ Len(bg_hist) = out.game_count
        /\ (bg_args.both_sides /\ ~AtaxxIsDone(bg_args.start)) =>
              /\ GamesWhere(LeftFirst) = bg_args.games_per_side
              /\ GamesWhere(RightFirst) = bg_args.games_per_side

\* C36: when run returns, wins_l is the number of games won by the player
\* for whom bot_l selected the moves and wins_r the number won by the
\* player of bot_r, wins_l + wins_r + draws = game_count, and with
\* both_sides each bot made the first move of games_per_side games.
C36_WinsCounted == bg_pc = "done" => CountsRight

\* start() is a board with B to move: bot_l, moving first, played B and B
\* won the one game, which run counts for bot_r.
C36_WinOfLeftCountedRight ==
    /\ bg_pc = "done"
    /\ bg_args.start.next_player = "B"
    /\ ~bg_args.both_sides
    /\ Len(bg_hist) = 1
    /\ bg_hist[1].l_players = {"B"}
    /\ bg_hist[1].outcome = WonBy("B")
    /\ Unwrap(bg_out).wins_l = 0
    /\ Unwrap(bg_out).wins_r = 1

\* The same statement for the start boards with A to move: it holds.
C36_WinsCountedFromA ==
    (bg_pc = "done" /\ bg_args.start.next_player = "A") => CountsRight


----------------------------------------------------------------------------
(* A board that is not done has a move.                                     *)

\* Macro m of b is not won by a player and has a free tile.
MacroPlayable(b, m) ==
    /\ ~has_bit(b.main_grid, m) /\ ~has_bit(b.main_grid, m + 9)
    /\ free_cells(b.grids[m]) /= 0

\* What BoardMoveIterator::next returns on b, macro after macro: a macro of
\* macro_mask without a free tile has grid_left = 0 after line 167 and
\* line 171 takes trailing_zeros of 0.
IteratorInBounds(b) ==
    \A m \in 0..8 : has_bit(b.macro_mask, m) => free_cells(b.grids[m]) /= 0

\* C37: a board reached from Board::new() by plays that is not done has
\* macro_mask non-empty and inside macro_open, every macro of macro_open is
\* neither won nor full, the move iterator enters only macros with a free
\* tile, and available_moves is not empty and yields available moves only.
C37_NotDoneHasMove ==
    ~is_done(k_board) =>
        /\ k_board.macro_mask /= 0
        /\ \A m \in 0..8 :
              has_bit(k_board.macro_mask, m) => has_bit(k_board.macro_open, m)
        /\ \A m \in 0..8 :
              has_bit(k_board.macro_open, m) => MacroPlayable(k_board, m)
        /\ IteratorInBounds(k_board)
        /\ Len(available_moves(k_board)) > 0
        /\ \A k \in 1..Len(available_moves(k_board)) :
              is_available_move(k_board, available_moves(k_board)[k])

\* A play has sent the next player to a macro that is closed: the board is
\* not done and the mask is all of the macros still open, several of them.
C37_Witness ==
    /\ k_plays = 1
    /\ ~is_done(k_board)
    /\ ~has_bit(k_board.macro_open, os(Unwrap(k_board.last_move)))
    /\ k_board.macro_mask = k_board.macro_open
    /\ count_ones(k_board.macro_mask) > 1
    /\ Len(available_moves(k_board)) > 1


----------------------------------------------------------------------------
(* Every game of plays ends.                                                *)

\* The tiles of b that a player owns.
TileCount(b) == Cardinality({c \in 0..80 : tile(b, c) /= Neutral})

\* Some tile of b has the bit of both players.
OwnedByBoth(b) ==
    \E m \in 0..8 : \E i \in 0..8 :
        has_bit(b.grids[m], i) /\ has_bit(b.grids[m], i + 9)

\* Neither player has three macros in a row on the main grid.
NoMainWin(b) ==
    ~is_win_grid(b.main_grid) /\ ~is_win_grid(b.main_grid \div Pow2(9))

\* C38: every play is made on a board that is not done, gives exactly one
\* tile that was empty to the player to move, changes no other tile and
\* flips next_player; no tile is ever owned by both players; a board that
\* is not done has fewer than 81 tiles taken, so that won_by is Some after
\* at most 81 plays; and a board with no open macro and no three in a row
\* on the main grid is a draw.
C38_Terminates ==
    /\ [](/\ ~OwnedByBoth(k_board)
          /\ ~is_done(k_board) => TileCount(k_board) < 81
          /\ k_board.macro_open = 0 => is_done(k_board)
          /\ (k_board.macro_open = 0 /\ NoMainWin(k_board)) =>
                k_board.won_by = Some(Neutral))
    /\ [][LET changed == {c \in 0..80 :
                             tile(k_board', c) /= tile(k_board, c)}
          IN  /\ ~is_done(k_board)
              /\ Cardinality(changed) = 1
              /\ \A c \in changed :
                    /\ is_available_move(k_board, c)
                    /\ tile(k_board, c) = Neutral
                    /\ tile(k_board', c) = k_board.next_player
                    /\ \A m \in 0..8 :
                          count_ones(k_board'.grids[m]) =
                              count_ones(k_board.grids[m])
                                  + (IF m = om(c) THEN 1 ELSE 0)
              /\ TileCount(k_board') = TileCount(k_board) + 1
              /\ k_board'.next_player = other(k_board.next_player)]_k_board

\* A play has closed the last open macro with no three in a row on the
\* main grid: the game is a draw.
C38_Witness ==
    /\ k_plays = 1
    /\ k_board.macro_open = 0
    /\ NoMainWin(k_board)
    /\ k_board.won_by = Some(Neutral)
    /\ tile(k_board, Unwrap(k_board.last_move)) = other(k_board.next_player)


----------------------------------------------------------------------------
(* The arguments of Node::uct in mcts_evaluate.                             *)

\* The walk stands at the selection step (lines 109-114): the board is not
\* done and no child of the current node is without a visit.
AtSelection ==
    /\ mpc = "walk"
    /\ ~is_done(m_curr_board)
    /\ Len(Unexplored(InitChildren(m_tree, m_curr_node, m_curr_board),
                      m_curr_node)) = 0

\* The values of uct that the selection step computes at the current node.
SelectionScores ==
    LET t2 == InitChildren(m_tree, m_curr_node, m_curr_board)
        it == MIdxRangeIter(Unwrap(t2[m_curr_node].children))
    IN  {m_uct(t2[it[k]], t2[m_curr_node].visits, h) :
            k \in 1..Len(it), h \in HeuristicValues}

\* C39: with or without batch_eval, when the selection step is reached the
\* current node has children, each with visits >= 1, and visits >= 1
\* itself, so that no uct score is NaN; throughout, no node has more visits
\* than its parent.
C39_UctDefined ==
    /\ \A n \in DOMAIN m_tree :
          m_tree[n].parent /= None =>
              m_tree[n].visits <= m_tree[Unwrap(m_tree[n].parent)].visits
    /\ AtSelection =>
          /\ m_tree[m_curr_node].children /= None
          /\ m_tree[m_curr_node].visits >= 1
          /\ LET it == MIdxRangeIter(Unwrap(m_tree[m_curr_node].children))
             IN  /\ Len(it) > 0
                 /\ \A k \in 1..Len(it) : m_tree[it[k]].visits >= 1
          /\ NaN \notin SelectionScores

\* The batched search has selected a child by its uct, below the root, while
\* evaluations are still queued, and stands at a selection step again.
C39_Witness ==
    /\ batch_eval
    /\ eval_queue /= <<>>
    /\ m_curr_node /= 0
    /\ AtSelection
    /\ m_tree[m_curr_node].visits >= 1


----------------------------------------------------------------------------
(* is_win_grid against the lines of a 3x3 grid.                             *)

\* The eight lines of three cells, a cell being column + 3 * row.
WinLines ==
    {{c + 3 * r : c \in 0..2} : r \in 0..2}
        \cup {{c + 3 * r : r \in 0..2} : c \in 0..2}
        \cup {{0, 4, 8}, {2, 4, 6}}

\* The low nine bits of g hold every cell of some line.
HasLine(g) == \E l \in WinLines : \A i \in l : has_bit(g % 512, i)

\* C40: is_win_grid(g) is true exactly when the low nine bits of g hold one
\* of the eight lines of the 3x3 grid; the bits from the tenth up do not
\* change the result.
C40_WinGrid ==
    wg_result /= None =>
        /\ Cardinality(WinLines) = 8
        /\ Unwrap(wg_result) = HasLine(wg_grid)
        /\ Unwrap(wg_result) = is_win_grid(wg_grid % 512)

\* A grid with bits above the ninth whose only line is a diagonal.
C40_Witness ==
    /\ wg_grid = 1024 + 512 + 64 + 16 + 4 + 1
    /\ wg_result = Some(TRUE)

=============================================================================
